---- MODULE Spec2Model ----
(***************************************************************************)
(* bicache: a two-tier (MRU / MFU) sharded key/value cache.                *)
(*                                                                         *)
(* The model follows one shard of a cache built with ShardCount = 1 (1 is  *)
(* a power of two, so getShard(k) = h & 0 = 0 for every key).  The shard   *)
(* is the record s, whose fields carry the names of the Go struct Shard.   *)
(*                                                                         *)
(* Pointers.  A *sll.Node is a node id; s.nodes is the heap of node        *)
(* objects.  The next/prev/list pointers of a node are kept as             *)
(*   - the position of the id in the ring of the Sll that links it         *)
(*     (ring[1] is Head() = root.prev, the last element is Tail() =        *)
(*     root.next), and                                                     *)
(*   - the field "at": "mru" / "mfu" (linked in the Sll that s.mruCache /  *)
(*     s.mfuCache points to now), "old" (still linked, in an Sll that a    *)
(*     Flush replaced), "nil" (next = prev = nil, after Remove), "free"    *)
(*     (no such object: the id is unused or was garbage collected).        *)
(* Every linked node is linked in exactly one ring, because the code only  *)
(* ever pushes a node right after it created or Removed (unlinked) it.     *)
(* The len field of an Sll is kept apart from its ring: Remove decrements  *)
(* the len of the Sll it is called on, whichever ring links the node.      *)
(* len is a uint64; it is kept as an integer, a negative value standing    *)
(* for the wrapped value 2^64 + len.                                       *)
(***************************************************************************)
EXTENDS Integers, Sequences, FiniteSets, TLC

\* ---------------------------------------------------------------- bounds
\* The Node objects that exist at a time, and the threads that call Set
\* when no background task runs.
MaxNodes == 4
MaxProcs == 1
\* The client threads whose calls are followed past their locked section.
MaxThreads == 2

\* Config.AutoEvict of the background-task configurations; bgAutoEvict uses
\* it as a time.Duration, that is as a number of nanoseconds.
AutoEvict == 1
\* time.Second in clock units.  The clock advances in whole seconds; any
\* AutoEvict below 10^9 is a duration below one second.
Second == 2

NodeIds == 1..MaxNodes
Threads == 1..MaxThreads
\* time.Second * 2147483647 (about 68 years): beyond every expiry that a
\* bounded clock and a bounded TTL can give.
Far == 1000

Nil == 0

\* The width of an int, scaled down from 64 bits, and the shard count that
\* New uses for a ShardCount of 0.
IntBits == 11
DefaultShards == 512

VARIABLES
    s,        \* the Shard (with the heap of its sll.Node objects)
    b,        \* the Bicache: its fields autoEvict, paused, ShardCount and Size,
              \* whether its context is canceled and bgAutoEvict has returned,
              \* the Config it was made from and how that call of New ended
    now,      \* time.Now()
    proc,     \* the locals of each running promoteEvict (and of bgAutoEvict)
    sweep,    \* the locals of the evictTTL that bgAutoEvict runs
    sched,    \* "conc": callers run while a maintenance pass is between two of
              \* its locked sections; "seq": they wait for the pass to return
    bnd,      \* the bounds of the explored inputs and counters (constant)
    calls,    \* the calls of the client threads that have left their locked
              \* section but not yet returned, and the tally of the calls made
    lastSet   \* per key, the value of the last successful set since the key
              \* was last absent from the cache (history)

vars == <<s, b, now, proc, sweep, sched, bnd, calls, lastSet>>

\* The threads that run promoteEvict: the background task, or the callers of
\* Set when there is none.
Procs == DOMAIN proc

\* ------------------------------------------------------------- sequences
Range(q) == {q[i] : i \in 1..Len(q)}

Min(x, y) == IF x < y THEN x ELSE y

Without(q, n) == SelectSeq(q, LAMBDA x : x # n)

Swap(q, i, j) == [q EXCEPT ![i] = q[j], ![j] = q[i]]

Reverse(q) == [i \in 1..Len(q) |-> q[Len(q) + 1 - i]]

MapDelete(m, k) == [x \in DOMAIN m \ {k} |-> m[x]]

MapPut(m, k, e) == [x \in DOMAIN m \cup {k} |-> IF x = k THEN e ELSE m[x]]

\* ------------------------------------------------------------------- sll
FreeNode == [k |-> Nil, v |-> Nil, Score |-> 0, at |-> "free"]

\* sll.New
NewSll == [ring |-> <<>>, len |-> 0]

\* The Sll object a shard field points to.
ListOf(S, which) == IF which = "mru" THEN S.mruCache ELSE S.mfuCache

SetList(S, which, ll) ==
    IF which = "mru" THEN [S EXCEPT !.mruCache = ll] ELSE [S EXCEPT !.mfuCache = ll]

\* The node is unlinked from the ring that links it (pull, and Remove's first
\* two statements): n.next.prev, n.prev.next = n.prev, n.next; n.next, n.prev = nil, nil.
\* A node whose next is nil makes n.next.prev a nil dereference.
Unlink(S, n) ==
    IF S.nodes[n].at \in {"nil", "free"}
    THEN [S EXCEPT !.panic = TRUE]
    ELSE [S EXCEPT !.mruCache.ring = Without(@, n),
                   !.mfuCache.ring = Without(@, n),
                   !.nodes[n].at = "nil"]

\* Sll.Len
SllLen(ll) == ll.len

\* A capacity test that lets a list grow one past its capacity: len > cap.
UGt(len, cap) == len < 0 \/ len > cap

\* uint comparison a >= b of a len against a capacity.
UGe(len, cap) == len < 0 \/ len >= cap

\* Sll.Remove, called on the Sll of field which.
Remove(S, which, n) ==
    IF S.panic THEN S
    ELSE LET U == Unlink(S, n)
         IN  IF U.panic THEN U
             ELSE SetList(U, which, [ListOf(U, which) EXCEPT !.len = @ - 1])

\* Sll.PushTailNode: insertAt(n, ll.root), so n becomes root.next, the tail.
PushTailNode(S, which, n) ==
    IF S.panic THEN S
    ELSE LET ll == ListOf(S, which)
             T  == SetList(S, which, [ring |-> Append(ll.ring, n), len |-> ll.len + 1])
         IN  [T EXCEPT !.nodes[n].at = which]

\* Sll.PushHeadNode: insertAt(n, ll.root.prev), so n becomes root.prev, the head.
PushHeadNode(S, which, n) ==
    IF S.panic THEN S
    ELSE LET ll == ListOf(S, which)
             T  == SetList(S, which, [ring |-> <<n>> \o ll.ring, len |-> ll.len + 1])
         IN  [T EXCEPT !.nodes[n].at = which]

\* The address of the next Node object.  Any unused address will do: the
\* Node of key k is given address k when that is unused, else the least
\* unused address.
NewNode(S, k) ==
    IF S.nodes[k].at = "free" THEN k
    ELSE CHOOSE n \in NodeIds : S.nodes[n].at = "free" /\
             \A m \in NodeIds : S.nodes[m].at = "free" => n <= m

HasFreeNode(S) == \E n \in NodeIds : S.nodes[n].at = "free"

\* Sll.PushTail(&cacheData{k, v}): a new node with Score 0 at the tail.
PushTail(S, which, k, v) ==
    LET n  == NewNode(S, k)
        ll == ListOf(S, which)
        T  == SetList(S, which, [ring |-> Append(ll.ring, n), len |-> ll.len + 1])
    IN  [T EXCEPT !.nodes[n] = [k |-> k, v |-> v, Score |-> 0, at |-> which]]

\* Sll.PushHead(&cacheData{k, v}): a new node with Score 0 at the head.
PushHead(S, which, k, v) ==
    LET n  == NewNode(S, k)
        ll == ListOf(S, which)
        T  == SetList(S, which, [ring |-> <<n>> \o ll.ring, len |-> ll.len + 1])
    IN  [T EXCEPT !.nodes[n] = [k |-> k, v |-> v, Score |-> 0, at |-> which]]

\* Sll.MoveToHead: a no-op for the head; else pull(n), insertAt(n, ll.root.prev).
MoveToHead(S, which, n) ==
    LET ll == ListOf(S, which)
    IN  IF ll.ring # <<>> /\ ll.ring[1] = n THEN S
        ELSE LET U == Unlink(S, n)
             IN  IF U.panic THEN U
                 ELSE [SetList(U, which, [ListOf(U, which) EXCEPT !.ring = <<n>> \o @])
                          EXCEPT !.nodes[n].at = which]

\* ------------------------------------------------------------------ heap
\* MinHeap.Less / MaxHeap.Less on the heap h (0-based i, j) with the nodes'
\* scores sc.
HeapLess(h, sc, isMin, i, j) ==
    IF isMin THEN sc[h[i + 1]] < sc[h[j + 1]] ELSE sc[h[i + 1]] > sc[h[j + 1]]

\* container/heap up(h, j)
RECURSIVE HeapUp(_, _, _, _)
HeapUp(h, sc, isMin, j) ==
    LET i == IF j = 0 THEN 0 ELSE (j - 1) \div 2
    IN  IF i = j \/ ~HeapLess(h, sc, isMin, j, i) THEN h
        ELSE HeapUp(Swap(h, i + 1, j + 1), sc, isMin, i)

\* container/heap down(h, i, n)
RECURSIVE HeapDown(_, _, _, _, _)
HeapDown(h, sc, isMin, i, n) ==
    LET j1 == 2 * i + 1
    IN  IF j1 >= n THEN h
        ELSE LET j2 == j1 + 1
                 j  == IF j2 < n /\ HeapLess(h, sc, isMin, j2, j1) THEN j2 ELSE j1
             IN  IF ~HeapLess(h, sc, isMin, j, i) THEN h
                 ELSE HeapDown(Swap(h, i + 1, j + 1), sc, isMin, j, n)

\* heap.Push(h, node): append, then up(h, h.Len() - 1)
HeapPush(h, sc, isMin, n) == HeapUp(Append(h, n), sc, isMin, Len(h))

\* heap.Pop(h): Swap(0, n), down(h, 0, n), then drop the last element.
HeapPop(h, sc, isMin) ==
    LET n == Len(h) - 1
        d == HeapDown(Swap(h, 1, n + 1), sc, isMin, 0, n)
    IN  SubSeq(d, 1, n)

\* sort.Sort of a slice of at most 12 elements is an insertion sort:
\* for i := 1; i < n; i++ { for j := i; j > 0 && less(j, j-1); j-- { swap(j, j-1) } }
\* desc: the Less of sort.Reverse, Less(i, j) = nsl.Less(j, i).
NslLess(q, sc, desc, i, j) ==
    IF desc THEN sc[q[j]] < sc[q[i]] ELSE sc[q[i]] < sc[q[j]]

RECURSIVE SortInner(_, _, _, _)
SortInner(q, sc, desc, j) ==
    IF j > 1 /\ NslLess(q, sc, desc, j, j - 1)
    THEN SortInner(Swap(q, j, j - 1), sc, desc, j - 1)
    ELSE q

RECURSIVE SortFrom(_, _, _, _)
SortFrom(q, sc, desc, i) ==
    IF i > Len(q) THEN q ELSE SortFrom(SortInner(q, sc, desc, i), sc, desc, i + 1)

SortScores(q, sc, desc) == SortFrom(q, sc, desc, 2)

\* The second loop of HighScores / LowScores: push-pop every node that beats
\* the heap's root.
RECURSIVE HeapSelect(_, _, _, _)
HeapSelect(h, rest, sc, isMin) ==
    IF rest = <<>> THEN h
    ELSE LET n    == Head(rest)
             peek == sc[h[1]]
             beat == IF isMin THEN sc[n] > peek ELSE sc[n] < peek
         IN  HeapSelect(IF beat THEN HeapPop(HeapPush(h, sc, isMin, n), sc, isMin) ELSE h,
                        Tail(rest), sc, isMin)

\* The first loop: heap.Push of the first k nodes.
RECURSIVE HeapFill(_, _, _, _)
HeapFill(h, first, sc, isMin) ==
    IF first = <<>> THEN h
    ELSE HeapFill(HeapPush(h, sc, isMin, Head(first)), Tail(first), sc, isMin)

Scores(S) == [n \in NodeIds |-> S.nodes[n].Score]

\* A selection that stops after the first loop: the first k nodes, sorted.
TopKFirst(order, k, sc, isMin) ==
    SortScores(HeapFill(<<>>, SubSeq(order, 1, Min(k, Len(order))), sc, isMin), sc, FALSE)

\* The selection of Sll.HighScores(k) / Sll.LowScores(k) over the nodes in
\* traversal order (from the head for HighScores, from the tail for LowScores).
TopK(order, k, sc, isMin) ==
    LET m == Min(k, Len(order))
        h == HeapFill(<<>>, SubSeq(order, 1, m), sc, isMin)
    IN  SortScores(HeapSelect(h, SubSeq(order, m + 1, Len(order)), sc, isMin), sc, FALSE)

\* Sll.HighScores(k).  "panic": the list is not empty by its len and the walk
\* starts at the root (h.Peek of an empty heap for k = 0, root.list nil).
HighScores(S, which, k) ==
    LET ll == ListOf(S, which)
    IN  IF SllLen(ll) = 0 THEN [panic |-> FALSE, list |-> <<>>]
        ELSE IF ll.ring = <<>> \/ k <= 0 THEN [panic |-> TRUE, list |-> <<>>]
        ELSE [panic |-> FALSE, list |-> TopK(ll.ring, k, Scores(S), TRUE)]

\* Sll.LowScores(k)
LowScores(S, which, k) ==
    LET ll == ListOf(S, which)
    IN  IF SllLen(ll) = 0 THEN [panic |-> FALSE, list |-> <<>>]
        ELSE IF ll.ring = <<>> \/ k <= 0 THEN [panic |-> TRUE, list |-> <<>>]
        ELSE [panic |-> FALSE, list |-> TopK(Reverse(ll.ring), k, Scores(S), FALSE)]

\* Go's append growth for a small slice of pointers: the capacity after n
\* appends to an empty slice is the least power of two >= n.
RECURSIVE Pow2Ceil(_, _)
Pow2Ceil(n, c) == IF c >= n THEN c ELSE Pow2Ceil(n, 2 * c)

GoCap(n) == IF n = 0 THEN 0 ELSE Pow2Ceil(n, 1)

\* --------------------------------------------------------------- methods
\* A set that moves the node of a key it already holds to the head but
\* leaves the node's old value.
AdmitKeepingValue(S, k, v) ==
    IF k \notin DOMAIN S.cacheMap
    THEN IF S.noOverflow /\ UGe(SllLen(S.mruCache), S.mruCap)
         THEN [S |-> [S EXCEPT !.counters.overflows = @ + 1], ok |-> FALSE]
         ELSE [S |-> [PushHead(S, "mru", k, v) EXCEPT
                         !.cacheMap = MapPut(@, k, [node |-> NewNode(S, k), state |-> 0])],
               ok |-> TRUE]
    ELSE LET e == S.cacheMap[k]
         IN  [S |-> IF e.state = 0 THEN MoveToHead(S, "mru", e.node) ELSE S, ok |-> TRUE]

\* A Get that also moves the node it reads to the head of its list.
GetMovingToHead(S, k) ==
    IF k \in DOMAIN S.cacheMap
    THEN LET e == S.cacheMap[k]
             T == [S EXCEPT !.nodes[e.node].Score = @ + 1, !.counters.hits = @ + 1]
         IN  [S |-> MoveToHead(T, IF e.state = 0 THEN "mru" ELSE "mfu", e.node),
              v |-> S.nodes[e.node].v]
    ELSE [S |-> [S EXCEPT !.counters.misses = @ + 1], v |-> Nil]

\* An update that starts the score of the key again at 0.
AdmitResettingScore(S, k, v) ==
    IF k \notin DOMAIN S.cacheMap
    THEN IF S.noOverflow /\ UGe(SllLen(S.mruCache), S.mruCap)
         THEN [S |-> [S EXCEPT !.counters.overflows = @ + 1], ok |-> FALSE]
         ELSE [S |-> [PushHead(S, "mru", k, v) EXCEPT
                         !.cacheMap = MapPut(@, k, [node |-> NewNode(S, k), state |-> 0])],
               ok |-> TRUE]
    ELSE LET e == S.cacheMap[k]
             W == [S EXCEPT !.nodes[e.node].v = v, !.nodes[e.node].Score = 0]
         IN  [S |-> IF e.state = 0 THEN MoveToHead(W, "mru", e.node) ELSE W, ok |-> TRUE]

\* The body that Set and SetTTL share (Set lines 58-76, SetTTL lines 109-126),
\* under the shard's Lock.  ok is the return value.
Admit(S, k, v) ==
    IF k \notin DOMAIN S.cacheMap
    THEN IF S.noOverflow /\ UGe(SllLen(S.mruCache), S.mruCap)
         THEN [S |-> [S EXCEPT !.counters.overflows = @ + 1], ok |-> FALSE]
         ELSE [S |-> [PushHead(S, "mru", k, v) EXCEPT
                         !.cacheMap = MapPut(@, k, [node |-> NewNode(S, k), state |-> 0])],
               ok |-> TRUE]
    ELSE LET e == S.cacheMap[k]
             W == [S EXCEPT !.nodes[e.node].v = v]
         IN  [S |-> IF e.state = 0 THEN MoveToHead(W, "mru", e.node) ELSE W, ok |-> TRUE]

\* Bicache.Set up to its s.Unlock()
SetLocked(S, k, v) == Admit(S, k, v)

\* A SetTTL that leaves the expiry of a key that already has one.
SetTTLKeepingExpiry(S, k, v, t, clock) ==
    LET expiration == IF k \in DOMAIN S.ttlMap THEN S.ttlMap[k] ELSE clock + Second * t
        T == [S EXCEPT !.ttlMap = MapPut(@, k, expiration), !.ttlCount = @ + 1]
        A == Admit(T, k, v)
    IN  IF ~A.ok THEN A
        ELSE [S |-> IF expiration < A.S.nearestExpire
                    THEN [A.S EXCEPT !.nearestExpire = expiration] ELSE A.S,
              ok |-> TRUE]

\* Bicache.SetTTL up to its s.Unlock(): the expiry and the TTL count are
\* written before the entry is looked up.
SetTTLLocked(S, k, v, t, clock) ==
    LET expiration == clock + Second * t
        T == [S EXCEPT !.ttlMap = MapPut(@, k, expiration), !.ttlCount = @ + 1]
        A == Admit(T, k, v)
    IN  IF ~A.ok THEN A
        ELSE [S |-> IF expiration < A.S.nearestExpire
                    THEN [A.S EXCEPT !.nearestExpire = expiration] ELSE A.S,
              ok |-> TRUE]

\* A Get that returns the value of the node at the head of the MRU list.
GetFromHead(S, k) ==
    IF k \in DOMAIN S.cacheMap
    THEN LET n == S.cacheMap[k].node
             h == IF S.mruCache.ring = <<>> THEN n ELSE S.mruCache.ring[1]
         IN  [S |-> [S EXCEPT !.nodes[n].Score = @ + 1, !.counters.hits = @ + 1],
              v |-> S.nodes[h].v]
    ELSE [S |-> [S EXCEPT !.counters.misses = @ + 1], v |-> Nil]

\* Bicache.Get: v is the return value (Nil for a miss).
GetLocked(S, k) ==
    IF k \in DOMAIN S.cacheMap
    THEN LET n == S.cacheMap[k].node
         IN  [S |-> [S EXCEPT !.nodes[n].Score = @ + 1, !.counters.hits = @ + 1],
              v |-> S.nodes[n].v]
    ELSE [S |-> [S EXCEPT !.counters.misses = @ + 1], v |-> Nil]

\* The switch n.state of Del and evictTTL.
RemoveByState(S, e) ==
    IF e.state = 0 THEN Remove(S, "mru", e.node) ELSE Remove(S, "mfu", e.node)

\* Bicache.Del
DelLocked(S, k) ==
    IF k \in DOMAIN S.cacheMap
    THEN RemoveByState([S EXCEPT !.cacheMap = MapDelete(@, k), !.ttlMap = MapDelete(@, k)],
                       S.cacheMap[k])
    ELSE S

\* s.mruCache = sll.New() / s.mfuCache = sll.New(): the nodes of the replaced
\* Sll stay linked to one another.
ReplaceList(S, which) ==
    SetList([S EXCEPT !.nodes = [n \in NodeIds |->
                 IF S.nodes[n].at = which THEN [S.nodes[n] EXCEPT !.at = "old"]
                 ELSE S.nodes[n]]],
            which, NewSll)

\* The loop of FlushMru (state 0) / FlushMfu (state 1) over the cache map.
FlushState(S, st) ==
    LET gone == {k \in DOMAIN S.cacheMap : S.cacheMap[k].state = st}
    IN  [S EXCEPT !.cacheMap = [k \in DOMAIN S.cacheMap \ gone |-> S.cacheMap[k]],
                  !.ttlMap = [k \in DOMAIN S.ttlMap \ gone |-> S.ttlMap[k]]]

\* Bicache.FlushMru, for the one shard
FlushMruLocked(S) == ReplaceList(FlushState(S, 0), "mru")

\* Bicache.FlushMfu
FlushMfuLocked(S) == ReplaceList(FlushState(S, 1), "mfu")

\* Bicache.FlushAll
FlushAllLocked(S, clock) ==
    ReplaceList(ReplaceList([S EXCEPT !.cacheMap = <<>>, !.ttlMap = <<>>,
                                      !.nearestExpire = clock + Far], "mfu"), "mru")

\* ------------------------------------------------------------ maintenance
\* Shard.decrementTTLCount
DecrementTTLCount(S, n) ==
    [S EXCEPT !.ttlCount = IF n > @ THEN 0 ELSE @ - n,
              !.counters.evictions = @ + n]

\* Shard.evictFromMRUTail: Tail() of an empty ring is the root, whose Value is
\* nil, and node.Value.(*cacheData) panics.
RECURSIVE EvictLoop(_, _)
EvictLoop(S, n) ==
    IF n <= 0 \/ S.panic THEN S
    ELSE IF S.mruCache.ring = <<>> THEN [S EXCEPT !.panic = TRUE]
    ELSE LET node == S.mruCache.ring[Len(S.mruCache.ring)]
             k    == S.nodes[node].k
         IN  EvictLoop(Remove([S EXCEPT !.cacheMap = MapDelete(@, k),
                                        !.ttlMap = MapDelete(@, k)], "mru", node),
                       n - 1)

\* A tail eviction that takes every evicted key off the TTL counter.
EvictFromMRUTailCountingAll(S, n) ==
    LET L == EvictLoop(S, n)
    IN  IF L.panic THEN L ELSE DecrementTTLCount(L, n)

EvictFromMRUTail(S, n) ==
    LET ttlStart   == Cardinality(DOMAIN S.ttlMap)
        L          == EvictLoop(S, n)
        ttlEvicted == ttlStart - Cardinality(DOMAIN L.ttlMap)
    IN  IF L.panic THEN L
        ELSE [DecrementTTLCount(L, ttlEvicted) EXCEPT
                 !.counters.evictions = @ + (n - ttlEvicted)]

\* evictTTL, the scan under RLock: the keys whose expiry has passed, and the
\* least expiry of the others.
RECURSIVE MinExpire(_, _, _)
MinExpire(m, ks, least) ==
    IF ks = {} THEN least
    ELSE LET k == CHOOSE x \in ks : TRUE
         IN  MinExpire(m, ks \ {k}, IF m[k] < least THEN m[k] ELSE least)

TTLScan(S, clock) ==
    LET expired == {k \in DOMAIN S.ttlMap : clock > S.ttlMap[k]}
    IN  [expired |-> expired,
         nearestExpire |-> MinExpire(S.ttlMap, DOMAIN S.ttlMap \ expired, clock + Far),
         evicted |-> 0]

\* evictTTL, the eviction under Lock (lines 320-348).
RECURSIVE TTLEvictLoop(_, _)
TTLEvictLoop(R, ks) ==
    IF ks = {} \/ R.S.panic THEN R
    ELSE LET k == CHOOSE x \in ks : TRUE
         IN  IF k \in DOMAIN R.S.cacheMap
             THEN TTLEvictLoop(
                    [S |-> RemoveByState([R.S EXCEPT !.cacheMap = MapDelete(@, k),
                                                     !.ttlMap = MapDelete(@, k)],
                                         R.S.cacheMap[k]),
                     evicted |-> R.evicted + 1], ks \ {k})
             ELSE TTLEvictLoop(R, ks \ {k})

TTLEvict(S, sw) ==
    LET R == TTLEvictLoop([S |-> S, evicted |-> 0], sw.expired)
    IN  [S |-> [R.S EXCEPT !.nearestExpire = sw.nearestExpire], evicted |-> R.evicted]

\* s.cacheMap[k].state = st: the map gives a nil *entry for a key it does not
\* hold, and the assignment panics.
SetState(S, k, st) ==
    IF S.panic THEN S
    ELSE IF k \notin DOMAIN S.cacheMap THEN [S EXCEPT !.panic = TRUE]
    ELSE [S EXCEPT !.cacheMap[k].state = st]

\* The locals of a promoteEvict call that is not running.
IdleProc == [pc |-> "idle", start |-> 0, mruOverflow |-> 0, mruToPromoteEvict |-> <<>>,
             promoted |-> 0, bottomMFU |-> <<>>, promotedByScore |-> 0]

\* An overflow check that keeps one slot of the MRU list free.
PEOverflowKeepingRoom(S, P) ==
    LET mruOverflow == SllLen(S.mruCache) - S.mruCap + 1
    IN  IF mruOverflow <= 0 THEN IdleProc
        ELSE [P EXCEPT !.mruOverflow = mruOverflow,
                       !.pc = IF S.mfuCap = 0 THEN "lru" ELSE "scan"]

\* promoteEvict lines 364-377: the overflow, read without the lock.
PEOverflow(S, P) ==
    LET mruOverflow == SllLen(S.mruCache) - S.mruCap
    IN  IF mruOverflow <= 0 THEN IdleProc
        ELSE [P EXCEPT !.mruOverflow = mruOverflow,
                       !.pc = IF S.mfuCap = 0 THEN "lru" ELSE "scan"]

\* A free-slot promotion that takes every node that was read once.
RECURSIVE FreeLoopFromOne(_, _, _, _)
FreeLoopFromOne(R, cand, i, canPromote) ==
    IF i > canPromote \/ R.S.panic THEN R
    ELSE IF i > Len(cand) THEN [R EXCEPT !.S.panic = TRUE]
    ELSE LET node == cand[i]
         IN  IF R.S.nodes[node].Score < 1 THEN R
             ELSE FreeLoopFromOne(
                    [S |-> SetState(PushTailNode(Remove(R.S, "mru", node), "mfu", node),
                                    R.S.nodes[node].k, 1),
                     promoted |-> R.promoted + 1],
                    cand, i + 1, canPromote)

\* Free-slot promotion, lines 420-435, over mruToPromoteEvict[:canPromote]
\* from index i on.  An element past len(mruToPromoteEvict) is a nil *Node.
RECURSIVE FreeLoop(_, _, _, _)
FreeLoop(R, cand, i, canPromote) ==
    IF i > canPromote \/ R.S.panic THEN R
    ELSE IF i > Len(cand) THEN [R EXCEPT !.S.panic = TRUE]
    ELSE LET node == cand[i]
         IN  IF R.S.nodes[node].Score < 2 THEN R
             ELSE FreeLoop(
                    [S |-> SetState(PushTailNode(Remove(R.S, "mru", node), "mfu", node),
                                    R.S.nodes[node].k, 1),
                     promoted |-> R.promoted + 1],
                    cand, i + 1, canPromote)

\* canPromote, lines 392-409
CanPromote(S, mruOverflow) ==
    LET free    == S.mfuCap - SllLen(S.mfuCache)
        mfuFree == IF free < 0 THEN 0 ELSE free
    IN  IF mfuFree >= mruOverflow THEN mruOverflow ELSE mfuFree

\* promoteEvict lines 387-446, under the Lock.
PEFree(S, P) ==
    LET cand       == SortScores(P.mruToPromoteEvict, Scores(S), TRUE)
        canPromote == CanPromote(S, P.mruOverflow)
        R == IF canPromote = 0 THEN [S |-> S, promoted |-> 0]
             ELSE IF canPromote > GoCap(Len(cand))
                  THEN [S |-> [S EXCEPT !.panic = TRUE], promoted |-> 0]
             ELSE FreeLoop([S |-> S, promoted |-> 0], cand, 1, canPromote)
    IN  [S |-> R.S,
         P |-> IF R.promoted = P.mruOverflow THEN IdleProc
               ELSE [P EXCEPT !.mruToPromoteEvict = cand, !.promoted = R.promoted,
                              !.pc = "low"]]

\* A skip test that goes on to the score-based promotion on equal scores.
PELowStrict(S, P) ==
    LET mruOverflow == P.mruOverflow - P.promoted
        L    == LowScores(S, "mfu", mruOverflow)
        cand == P.mruToPromoteEvict
        past == Len(L.list) # 0 /\ P.promoted + 1 > Len(cand)
        skip == Len(L.list) = 0 \/ past \/
                S.nodes[L.list[1]].Score > S.nodes[cand[P.promoted + 1]].Score
    IN  [panic |-> L.panic \/ past,
         P |-> [P EXCEPT !.mruOverflow = mruOverflow, !.bottomMFU = L.list,
                         !.promotedByScore = 0,
                         !.pc = IF skip THEN "evict" ELSE "score"]]

\* promoteEvict lines 449-471, with no lock held.
PELow(S, P) ==
    LET mruOverflow == P.mruOverflow - P.promoted
        L    == LowScores(S, "mfu", mruOverflow)
        cand == P.mruToPromoteEvict
        past == Len(L.list) # 0 /\ P.promoted + 1 > Len(cand)
        skip == Len(L.list) = 0 \/ past \/
                S.nodes[L.list[1]].Score >= S.nodes[cand[P.promoted + 1]].Score
    IN  [panic |-> L.panic \/ past,
         P |-> [P EXCEPT !.mruOverflow = mruOverflow, !.bottomMFU = L.list,
                         !.promotedByScore = 0,
                         !.pc = IF skip THEN "evict" ELSE "score"]]

\* A replacement that demotes the MFU node and leaves the candidate in the MRU.
DemoteOnly(S, mruNode, mfuNode) ==
    SetState(PushHeadNode(Remove(S, "mfu", mfuNode), "mru", mfuNode), S.nodes[mfuNode].k, 0)

\* The body of the inner loop's if, lines 479-491.
Replace(S, mruNode, mfuNode) ==
    LET A == SetState(PushHeadNode(Remove(S, "mfu", mfuNode), "mru", mfuNode),
                      S.nodes[mfuNode].k, 0)
    IN  SetState(PushTailNode(Remove(A, "mru", mruNode), "mfu", mruNode),
                 S.nodes[mruNode].k, 1)

\* The scorePromote loops, lines 476-503, from mruToPromoteEvict[i] on.
RECURSIVE ScoreLoop(_, _, _)
ScoreLoop(R, cand, i) ==
    IF i > Len(cand) \/ R.S.panic THEN R
    ELSE LET mruNode == cand[i]
             hits == {j \in 1..Len(R.bottomMFU) :
                        R.S.nodes[mruNode].Score > R.S.nodes[R.bottomMFU[j]].Score}
         IN  IF hits # {}
             THEN LET j == CHOOSE x \in hits : \A y \in hits : x <= y
                  IN  ScoreLoop([S |-> Replace(R.S, mruNode, R.bottomMFU[j]),
                                 bottomMFU |-> SubSeq(R.bottomMFU, 1, j - 1) \o
                                               SubSeq(R.bottomMFU, j + 1, Len(R.bottomMFU)),
                                 promotedByScore |-> R.promotedByScore + 1],
                                cand, i + 1)
             ELSE IF Len(R.bottomMFU) > 0 THEN R
             ELSE ScoreLoop(R, cand, i + 1)

\* promoteEvict lines 474-505, under the Lock.
PEScore(S, P) ==
    LET R == ScoreLoop([S |-> S, bottomMFU |-> P.bottomMFU, promotedByScore |-> 0],
                       P.mruToPromoteEvict, P.promoted + 1)
    IN  [S |-> R.S,
         P |-> [P EXCEPT !.bottomMFU = R.bottomMFU,
                         !.promotedByScore = R.promotedByScore, !.pc = "evict"]]

\* promoteEvict lines 507-518, under the Lock.
PEEvict(S, P) ==
    LET toEvict == P.mruOverflow - P.promotedByScore
    IN  IF toEvict > 0 THEN EvictFromMRUTail(S, toEvict) ELSE S

\* ----------------------------------------------------------- state machine
\* The Go runtime keeps a Node object alive while something points to it: the
\* cache map, a ring, or a slice of a running promoteEvict.
Refs(S, pr) ==
    {S.cacheMap[k].node : k \in DOMAIN S.cacheMap} \cup
    UNION {Range(pr[p].mruToPromoteEvict) \cup Range(pr[p].bottomMFU) : p \in Procs}

Collect(S, pr) ==
    [S EXCEPT !.nodes = [n \in NodeIds |->
        IF S.nodes[n].at \in {"old", "nil"} /\ n \notin Refs(S, pr)
        THEN FreeNode ELSE S.nodes[n]]]

\* A thread that is not in a call, and the state in which none is.
IdleThread == [pc |-> "idle", counter |-> "none", call |-> <<>>]

NoCalls == [th |-> [t \in Threads |-> IdleThread], gets |-> 0, rejected |-> 0]

\* New (lines 127-140), for one shard, and the zero values of the locals.
InitShard(mruCap, mfuCap, noOverflow) ==
    [cacheMap |-> <<>>, mfuCache |-> NewSll, mruCache |-> NewSll,
     mfuCap |-> mfuCap, mruCap |-> mruCap, ttlCount |-> 0, ttlMap |-> <<>>,
     counters |-> [hits |-> 0, misses |-> 0, evictions |-> 0, overflows |-> 0],
     nearestExpire |-> 0, noOverflow |-> noOverflow,
     nodes |-> [n \in NodeIds |-> FreeNode], panic |-> FALSE]

\* The int of a Config is a two's-complement integer of IntBits bits.
MinInt == -(2 ^ (IntBits - 1))

MaxInt == 2 ^ (IntBits - 1) - 1

\* x & y of two ints, over their bit patterns u and w (from the lowest bit).
RECURSIVE BitAnd(_, _)
BitAnd(u, w) ==
    IF u = 0 \/ w = 0 THEN 0
    ELSE (u % 2) * (w % 2) + 2 * BitAnd(u \div 2, w \div 2)

\* c.ShardCount & (c.ShardCount - 1): the subtraction wraps around at MinInt.
AndPredecessor(n) == BitAnd(n % 2 ^ IntBits, (n - 1) % 2 ^ IntBits)

\* A division that rounds down.
FloorDiv(size, shardCount) == size \div shardCount

\* int(math.Ceil(float64(size) / float64(shardCount))), for sizes and counts
\* that a float64 holds exactly.
CeilDiv(size, shardCount) == (size + shardCount - 1) \div shardCount

\* A cache that starts the background task for an AutoEvict of 0 as well.
BuiltWithTask(c, shardCount, size) ==
    [autoEvict |-> c.AutoEvict >= 0, paused |-> 0, canceled |-> FALSE, returned |-> FALSE,
     ShardCount |-> shardCount, Size |-> size, built |-> "cache", config |-> c]

\* The Bicache that New(c) returns, and what is left of a call of New that
\* returned an error or did not return.
Built(c, shardCount, size) ==
    [autoEvict |-> c.AutoEvict > 0, paused |-> 0, canceled |-> FALSE, returned |-> FALSE,
     ShardCount |-> shardCount, Size |-> size, built |-> "cache", config |-> c]

NotBuilt(c, how) ==
    [Built(c, 0, 0) EXCEPT !.autoEvict = FALSE, !.built = how]

\* New (lines 106-161): the cache and one of its shards (they are alike).
\* make([]*Shard, n) panics for a negative n.
NewBicache(c) ==
    LET n       == IF c.ShardCount = 0 THEN DefaultShards ELSE c.ShardCount
        mfuSize == CeilDiv(c.MFUSize, n)
        mruSize == CeilDiv(c.MRUSize, n)
    IN  IF AndPredecessor(c.ShardCount) # 0 THEN [b |-> NotBuilt(c, "error"), shard |-> s]
        ELSE IF c.MRUSize <= 0 THEN [b |-> NotBuilt(c, "error"), shard |-> s]
        ELSE IF n < 0 THEN [b |-> NotBuilt(c, "panic"), shard |-> s]
        ELSE [b |-> Built(c, n, (mfuSize + mruSize) * n),
              shard |-> InitShard(mruSize, mfuSize, c.NoOverflow)]

\* The state after New, with n threads that may run promoteEvict.
InitThreads(n, caps, mfus, noOverflows, autoEvicts, scheds, bounds) ==
    /\ bnd = bounds
    /\ \E mruCap \in caps, mfuCap \in mfus, noOverflow \in noOverflows :
           s = InitShard(mruCap, mfuCap, noOverflow)
    /\ \E a \in autoEvicts :
           b = Built([ShardCount |-> 1, MRUSize |-> s.mruCap, MFUSize |-> s.mfuCap,
                      AutoEvict |-> IF a THEN AutoEvict ELSE 0, NoOverflow |-> s.noOverflow],
                     1, s.mfuCap + s.mruCap)
    /\ now = 0
    /\ proc = [p \in 1..n |-> IdleProc]
    /\ sweep = [expired |-> {}, nearestExpire |-> 0, evicted |-> 0]
    /\ sched \in scheds
    /\ calls = NoCalls
    /\ lastSet = [k \in 1..bounds.keys |-> Nil]

InitWith(caps, mfus, noOverflows, autoEvicts, scheds, bounds) ==
    InitThreads(MaxProcs, caps, mfus, noOverflows, autoEvicts, scheds, bounds)

AllIdle == \A p \in Procs : proc[p].pc = "idle"

\* The pass of p has released the lock after its free-slot promotion (line
\* 446) and has not yet called LowScores (line 465).
InWindow == \E p \in Procs : proc[p].pc = "low"

\* A client thread is between the s.Lock() and the s.Unlock() of a call: no
\* other thread enters a section that takes the shard's Lock or RLock.
LockHeld == \E t \in Threads : calls.th[t].pc = "locked"

\* A caller may run: the process has not died of a panic, and no pass is in
\* flight unless callers and passes interleave, at every point where the pass
\* holds no lock ("conc") or only in the window before LowScores ("window").
CallerMayRun ==
    ~s.panic /\ ~LockHeld /\ (sched = "conc" \/ AllIdle \/ (sched = "window" /\ InWindow))

\* The history of the last set: a key that leaves the cache map has none.
LastSetAfter(S, k, v, ok) ==
    [x \in DOMAIN lastSet |-> IF x \notin DOMAIN S.cacheMap THEN Nil
                    ELSE IF ok /\ x = k THEN v ELSE lastSet[x]]

\* The end of an atomic step: the shard and the locals it leaves, or the
\* panic that ended the process.
Commit(S, pr, sw, k, v, ok) ==
    IF S.panic
    THEN /\ s' = [s EXCEPT !.panic = TRUE]
         /\ UNCHANGED <<proc, sweep, lastSet>>
    ELSE /\ s' = Collect(S, pr)
         /\ proc' = pr
         /\ sweep' = sw
         /\ lastSet' = LastSetAfter(S, k, v, ok)

\* After its Unlock, Set / SetTTL calls promoteEvict itself when no background
\* task does (lines 82-84): the caller is one of the threads of Procs.
AfterSet(ok, p) ==
    IF ok /\ ~b.autoEvict THEN [proc EXCEPT ![p].pc = "overflow"] ELSE proc

\* The thread that calls: without a background task it must be free to run
\* promoteEvict after the set (the least free one: threads are alike).
Caller(p) ==
    IF b.autoEvict THEN p = 1
    ELSE proc[p].pc = "idle" /\ \A q \in Procs : proc[q].pc = "idle" => p <= q

\* A new key needs a Node object, and is not admitted once the evictions
\* counter has reached its bound.
MayAdmit(k) ==
    k \in DOMAIN s.cacheMap \/ (HasFreeNode(s) /\ s.counters.evictions < bnd.evictions)

\* Bicache.Set
Set(k, v) ==
    /\ CallerMayRun
    /\ MayAdmit(k)
    /\ \E p \in Procs :
          /\ Caller(p)
          /\ LET A == SetLocked(s, k, v)
             IN  /\ A.ok \/ s.counters.overflows < bnd.overflows
                 /\ Commit(A.S, AfterSet(A.ok, p), sweep, k, v, A.ok)
    /\ UNCHANGED <<b, now, sched, bnd, calls>>

\* Bicache.SetTTL
SetTTL(k, v, t) ==
    /\ CallerMayRun
    /\ MayAdmit(k)
    /\ s.ttlCount < bnd.ttlCount
    /\ \E p \in Procs :
          /\ Caller(p)
          /\ LET A == SetTTLLocked(s, k, v, t, now)
             IN  /\ A.ok \/ s.counters.overflows < bnd.overflows
                 /\ Commit(A.S, AfterSet(A.ok, p), sweep, k, v, A.ok)
    /\ UNCHANGED <<b, now, sched, bnd, calls>>

\* Bicache.Get
Get(k) ==
    /\ CallerMayRun
    /\ IF k \in DOMAIN s.cacheMap
       THEN s.counters.hits < bnd.hits /\ s.nodes[s.cacheMap[k].node].Score < bnd.score
       ELSE s.counters.misses < bnd.misses
    /\ LET G == GetLocked(s, k)
       IN  Commit(G.S, proc, sweep, k, Nil, FALSE)
    /\ UNCHANGED <<b, now, sched, bnd, calls>>

\* Bicache.Del
Del(k) ==
    /\ CallerMayRun
    /\ Commit(DelLocked(s, k), proc, sweep, k, Nil, FALSE)
    /\ UNCHANGED <<b, now, sched, bnd, calls>>

\* Bicache.FlushMru
FlushMru ==
    /\ CallerMayRun
    /\ Commit(FlushMruLocked(s), proc, sweep, Nil, Nil, FALSE)
    /\ UNCHANGED <<b, now, sched, bnd, calls>>

\* Bicache.FlushMfu
FlushMfu ==
    /\ CallerMayRun
    /\ Commit(FlushMfuLocked(s), proc, sweep, Nil, Nil, FALSE)
    /\ UNCHANGED <<b, now, sched, bnd, calls>>

\* Bicache.FlushAll
FlushAll ==
    /\ CallerMayRun
    /\ Commit(FlushAllLocked(s, now), proc, sweep, Nil, Nil, FALSE)
    /\ UNCHANGED <<b, now, sched, bnd, calls>>

\* Bicache.Pause
Pause ==
    /\ CallerMayRun
    /\ b.paused = 0
    /\ b' = [b EXCEPT !.paused = 1]
    /\ UNCHANGED <<s, now, proc, sweep, sched, bnd, calls, lastSet>>

\* Bicache.Resume
Resume ==
    /\ CallerMayRun
    /\ b.paused = 1
    /\ b' = [b EXCEPT !.paused = 0]
    /\ UNCHANGED <<s, now, proc, sweep, sched, bnd, calls, lastSet>>

\* The orders in which a range over the cache map may visit its keys: any.
MapOrders(S) ==
    LET keys == DOMAIN S.cacheMap
    IN  {q \in [1..Cardinality(keys) -> keys] : \A i, j \in DOMAIN q : q[i] = q[j] => i = j}

\* The KeyInfo of key k.
KeyInfo(S, k) ==
    [Key |-> k, State |-> S.cacheMap[k].state, Score |-> S.nodes[S.cacheMap[k].node].Score]

\* A List that cuts the results without sorting them.
ListUnsorted(S, order, n) ==
    LET lr == [i \in 1..Len(order) |-> KeyInfo(S, order[i])]
    IN  IF n < Len(lr) THEN SubSeq(lr, 1, n) ELSE lr

\* Bicache.List(n), for one shard whose map is visited in the given order:
\* sort.Sort(lr) by descending score, then lr[:n] when n < len(lr).
List(S, order, n) ==
    LET sc     == [k \in DOMAIN S.cacheMap |-> KeyInfo(S, k).Score]
        sorted == SortScores(order, sc, TRUE)
        lr     == [i \in 1..Len(sorted) |-> KeyInfo(S, sorted[i])]
    IN  IF n < Len(lr) THEN SubSeq(lr, 1, n) ELSE lr

\* Bicache.Stats, for one shard: the counters are read with atomic loads and
\* the sizes under the RLock.
Stats(S) ==
    [Hits |-> S.counters.hits, Misses |-> S.counters.misses,
     Evictions |-> S.counters.evictions, Overflows |-> S.counters.overflows,
     MruSize |-> SllLen(S.mruCache), MfuSize |-> SllLen(S.mfuCache)]

\* A counter update that books every call as a hit.
AddCounterAsHit(S, counter) == [S EXCEPT !.counters.hits = @ + 1]

\* atomic.AddUint64(&s.counters.<counter>, 1): Get lines 155 and 161, Set lines
\* 63 and SetTTL line 114.  The add is one indivisible read-modify-write.
AddCounter(S, counter) == [S EXCEPT !.counters[counter] = @ + 1]

\* The locked section of a call leaves the counters alone: the add comes
\* after the RUnlock / Unlock.
BeforeCount(S) == [S EXCEPT !.counters = s.counters]

Counting(t, counter) ==
    [calls.th EXCEPT ![t] = [pc |-> "count", counter |-> counter, call |-> <<>>]]

\* Bicache.Get by thread t, from s.RLock() to s.RUnlock()
GetCall(t, k) ==
    /\ CallerMayRun
    /\ calls.th[t].pc = "idle"
    /\ calls.gets < bnd.hits
    /\ k \in DOMAIN s.cacheMap => s.nodes[s.cacheMap[k].node].Score < bnd.score
    /\ Commit(BeforeCount(GetLocked(s, k).S), proc, sweep, k, Nil, FALSE)
    /\ calls' = [calls EXCEPT
                    !.th = Counting(t, IF k \in DOMAIN s.cacheMap THEN "hits" ELSE "misses"),
                    !.gets = @ + 1]
    /\ UNCHANGED <<b, now, sched, bnd>>

\* What a set leaves of the caller: a rejected set has its counter to add.
AfterSetCall(t, ok) ==
    IF ok THEN calls
    ELSE [calls EXCEPT !.th = Counting(t, "overflows"), !.rejected = @ + 1]

\* Bicache.Set by thread t, from s.Lock() to s.Unlock()
SetCall(t, k, v) ==
    /\ CallerMayRun
    /\ calls.th[t].pc = "idle"
    /\ MayAdmit(k)
    /\ \E p \in Procs :
          /\ Caller(p)
          /\ LET A == SetLocked(s, k, v)
             IN  /\ A.ok \/ calls.rejected < bnd.overflows
                 /\ Commit(BeforeCount(A.S), AfterSet(A.ok, p), sweep, k, v, A.ok)
                 /\ calls' = AfterSetCall(t, A.ok)
    /\ UNCHANGED <<b, now, sched, bnd>>

\* Bicache.SetTTL by thread t, from s.Lock() to s.Unlock()
SetTTLCall(t, k, v, ttl) ==
    /\ CallerMayRun
    /\ calls.th[t].pc = "idle"
    /\ MayAdmit(k)
    /\ s.ttlCount < bnd.ttlCount
    /\ \E p \in Procs :
          /\ Caller(p)
          /\ LET A == SetTTLLocked(s, k, v, ttl, now)
             IN  /\ A.ok \/ calls.rejected < bnd.overflows
                 /\ Commit(BeforeCount(A.S), AfterSet(A.ok, p), sweep, k, v, A.ok)
                 /\ calls' = AfterSetCall(t, A.ok)
    /\ UNCHANGED <<b, now, sched, bnd>>

\* The atomic add of a call that has released its lock, and its return.
CountReturn(t) ==
    /\ ~s.panic
    /\ calls.th[t].pc = "count"
    /\ s' = AddCounter(s, calls.th[t].counter)
    /\ calls' = [calls EXCEPT !.th[t] = IdleThread]
    /\ UNCHANGED <<b, now, proc, sweep, sched, bnd, lastSet>>

\* The clock passes a second.
AdvanceTime ==
    /\ ~s.panic
    /\ now + Second <= bnd.time
    /\ now' = now + Second
    /\ UNCHANGED <<s, b, proc, sweep, sched, bnd, calls, lastSet>>

\* Bicache.Close: b.done() cancels the context of bgAutoEvict.
Close ==
    /\ CallerMayRun
    /\ ~b.canceled
    /\ b' = [b EXCEPT !.canceled = TRUE]
    /\ UNCHANGED <<s, now, proc, sweep, sched, bnd, calls, lastSet>>

\* bgAutoEvict, case <-ctx.Done() (lines 187-188): return.
BgDone ==
    /\ ~s.panic
    /\ b.autoEvict /\ ~b.returned
    /\ proc[1].pc = "idle"
    /\ b.canceled
    /\ b' = [b EXCEPT !.returned = TRUE]
    /\ UNCHANGED <<s, now, proc, sweep, sched, bnd, calls, lastSet>>

\* bgAutoEvict, case <-interval.C (lines 189-197): a paused tick is skipped.
\* The select takes any of its cases that is ready: a tick that is ready when
\* the context is canceled may be taken before the cancellation.
BgTick ==
    /\ ~s.panic
    /\ b.autoEvict /\ ~b.returned
    /\ proc[1].pc = "idle"
    /\ b.paused = 0
    /\ proc' = [proc EXCEPT ![1].pc = "ttl"]
    /\ UNCHANGED <<s, b, now, sweep, sched, bnd, calls, lastSet>>

\* bgAutoEvict lines 204-214 and evictTTL lines 288-317: evictTTL runs when the
\* nearest expiry lies before start + iter, returns at once when no key has
\* a TTL, and else scans the TTL map under RLock.
TTLScanStep ==
    /\ ~s.panic
    /\ proc[1].pc = "ttl"
    /\ IF s.nearestExpire < now + AutoEvict /\ s.ttlCount # 0
       THEN /\ ~LockHeld
            /\ sweep' = TTLScan(s, now)
            /\ proc' = [proc EXCEPT ![1].pc = "ttlEvict", ![1].start = now]
       ELSE /\ sweep' = sweep
            /\ proc' = [proc EXCEPT ![1].pc = "overflow", ![1].start = now]
    /\ UNCHANGED <<s, b, now, sched, bnd, calls, lastSet>>

\* evictTTL lines 320-348, under Lock.
TTLEvictStep ==
    /\ ~s.panic
    /\ ~LockHeld
    /\ proc[1].pc = "ttlEvict"
    /\ LET E == TTLEvict(s, sweep)
       IN  Commit(E.S, [proc EXCEPT ![1].pc = "ttlCount"],
                  [sweep EXCEPT !.evicted = E.evicted], Nil, Nil, FALSE)
    /\ UNCHANGED <<b, now, sched, bnd, calls>>

\* evictTTL line 351, after the Unlock.
TTLCountStep ==
    /\ ~s.panic
    /\ proc[1].pc = "ttlCount"
    /\ Commit(DecrementTTLCount(s, sweep.evicted), [proc EXCEPT ![1].pc = "overflow"],
              [expired |-> {}, nearestExpire |-> 0, evicted |-> 0], Nil, Nil, FALSE)
    /\ UNCHANGED <<b, now, sched, bnd, calls>>

\* What the locked section of the call c of a client thread does to the shard.
CallEffect(S, c) ==
    IF c[1] = "Set" THEN SetLocked(S, c[2], c[3]).S
    ELSE IF c[1] = "Del" THEN DelLocked(S, c[2])
    ELSE FlushMruLocked(S)

\* What a walk of the shard's lists that holds no lock may see: the shard as
\* it is, or, beside a thread that is writing under the Lock, the shard as
\* that thread leaves it.
UnlockedViews ==
    {s} \cup {CallEffect(s, calls.th[t].call) : t \in {u \in Threads : calls.th[u].pc = "locked"}}

\* A call of Set, Del or FlushMru by thread t, at its s.Lock().
LockCall(t, c) ==
    /\ CallerMayRun
    /\ calls.th[t].pc = "idle"
    /\ c[1] = "Set" => MayAdmit(c[2])
    /\ calls' = [calls EXCEPT !.th[t] = [pc |-> "locked", counter |-> "none", call |-> c]]
    /\ UNCHANGED <<s, b, now, proc, sweep, sched, bnd, lastSet>>

\* The rest of the call, to its s.Unlock() and its return.
UnlockCall(t) ==
    /\ ~s.panic
    /\ calls.th[t].pc = "locked"
    /\ LET c == calls.th[t].call
       IN  Commit(CallEffect(s, c), proc, sweep, IF Len(c) > 1 THEN c[2] ELSE Nil,
                  IF c[1] = "Set" THEN c[3] ELSE Nil, c[1] = "Set")
    /\ calls' = [calls EXCEPT !.th[t] = IdleThread]
    /\ UNCHANGED <<b, now, sched, bnd>>

\* Bicache.List by thread t: the walk of shard.cacheMap (lines 197-206) takes
\* no lock, so it starts whatever the other threads hold.
ListCall(t) ==
    /\ ~s.panic
    /\ calls.th[t].pc = "idle"
    /\ calls' = [calls EXCEPT !.th[t] = [pc |-> "walk", counter |-> "none", call |-> <<"List">>]]
    /\ UNCHANGED <<s, b, now, proc, sweep, sched, bnd, lastSet>>

\* The walk ends: sort, cut and return.
ListReturn(t) ==
    /\ ~s.panic
    /\ calls.th[t].pc = "walk"
    /\ calls' = [calls EXCEPT !.th[t] = IdleThread]
    /\ UNCHANGED <<s, b, now, proc, sweep, sched, bnd, lastSet>>

\* promoteEvict, its steps for the pass of p.
PEOverflowStep(p) ==
    /\ ~s.panic
    /\ proc[p].pc = "overflow"
    /\ proc' = [proc EXCEPT ![p] = PEOverflow(s, proc[p])]
    /\ UNCHANGED <<s, b, now, sweep, sched, bnd, calls, lastSet>>

PELruStep(p) ==
    /\ ~s.panic
    /\ ~LockHeld
    /\ proc[p].pc = "lru"
    /\ Commit(EvictFromMRUTail(s, proc[p].mruOverflow), [proc EXCEPT ![p] = IdleProc],
              sweep, Nil, Nil, FALSE)
    /\ UNCHANGED <<b, now, sched, bnd, calls>>

PEScanStep(p) ==
    /\ ~s.panic
    /\ proc[p].pc = "scan"
    /\ \E V \in UnlockedViews :
          LET H == HighScores(V, "mru", proc[p].mruOverflow)
          IN  Commit([s EXCEPT !.panic = H.panic],
                     [proc EXCEPT ![p].mruToPromoteEvict = H.list, ![p].pc = "free"],
                     sweep, Nil, Nil, FALSE)
    /\ UNCHANGED <<b, now, sched, bnd, calls>>

PEFreeStep(p) ==
    /\ ~s.panic
    /\ ~LockHeld
    /\ proc[p].pc = "free"
    /\ LET F == PEFree(s, proc[p])
       IN  Commit(F.S, [proc EXCEPT ![p] = F.P], sweep, Nil, Nil, FALSE)
    /\ UNCHANGED <<b, now, sched, bnd, calls>>

PELowStep(p) ==
    /\ ~s.panic
    /\ proc[p].pc = "low"
    /\ \E V \in UnlockedViews :
          LET L == PELow(V, proc[p])
          IN  Commit([s EXCEPT !.panic = L.panic], [proc EXCEPT ![p] = L.P],
                     sweep, Nil, Nil, FALSE)
    /\ UNCHANGED <<b, now, sched, bnd, calls>>

PEScoreStep(p) ==
    /\ ~s.panic
    /\ ~LockHeld
    /\ proc[p].pc = "score"
    /\ LET R == PEScore(s, proc[p])
       IN  Commit(R.S, [proc EXCEPT ![p] = R.P], sweep, Nil, Nil, FALSE)
    /\ UNCHANGED <<b, now, sched, bnd, calls>>

PEEvictStep(p) ==
    /\ ~s.panic
    /\ ~LockHeld
    /\ proc[p].pc = "evict"
    /\ Commit(PEEvict(s, proc[p]), [proc EXCEPT ![p] = IdleProc],
              sweep, Nil, Nil, FALSE)
    /\ UNCHANGED <<b, now, sched, bnd, calls>>

Keys == 1..bnd.keys
Vals == 1..bnd.vals
TTLs == 0..bnd.ttl

Calls ==
    \/ \E k \in Keys, v \in Vals : Set(k, v)
    \/ \E k \in Keys : Get(k)
    \/ \E k \in Keys : Del(k)
    \/ FlushMru
    \/ FlushMfu
    \/ FlushAll

TTLCalls == \E k \in Keys, v \in Vals, t \in TTLs : SetTTL(k, v, t)

\* promoteEvict but for its score-based promotion
PEPass(p) ==
    \/ PEOverflowStep(p)
    \/ PELruStep(p)
    \/ PEScanStep(p)
    \/ PEFreeStep(p)
    \/ PELowStep(p)
    \/ PEEvictStep(p)

PromoteEvict == \E p \in Procs : PEPass(p) \/ PEScoreStep(p)

\* promoteEvict on a shard that never holds the three keys that a score-based
\* promotion takes (one in a full MFU, two in an overflowing MRU).
PromoteEvictFree == \E p \in Procs : PEPass(p)

BgPasses ==
    \/ BgTick
    \/ TTLScanStep

BgSweeps ==
    \/ TTLEvictStep
    \/ TTLCountStep

PauseResume ==
    \/ Pause
    \/ Resume

Bounds(keys, vals, ttl, time, score, hits, misses, overflows, evictions, ttlCount) ==
    [keys |-> keys, vals |-> vals, ttl |-> ttl, time |-> time,
     score |-> score, hits |-> hits, misses |-> misses,
     overflows |-> overflows, evictions |-> evictions, ttlCount |-> ttlCount]

\* ---------------------------------------------------------- specifications
\* Spec: a shard of capacities 1 (MRU) and 0 or 1 (MFU), with and without
\* NoOverflow; callers and the background task take turns.  Three keys and
\* scores up to 3 reach every branch of promoteEvict.  The clock stands
\* still, so a TTL (of 0 seconds) never runs out.
MaxKeys == 3
MaxVals == 1
MaxScore == 3
MaxHits == 5
MaxMisses == 1
MaxOverflows == 1
MaxEvictions == 2
MaxTTLCount == 1

Next == Calls \/ TTLCalls \/ PromoteEvict \/ BgPasses \/ BgSweeps

Init ==
    InitWith({1}, {0, 1}, {FALSE, TRUE}, {TRUE}, {"seq"},
             Bounds(MaxKeys, MaxVals, 0, 0, MaxScore, MaxHits, MaxMisses,
                    MaxOverflows, MaxEvictions, MaxTTLCount))

Spec == Init /\ [][Next]_vars

\* SpecTTL: the same shards with two keys and two values, TTLs of 0 and 1
\* second and a clock that advances; callers and the background task take
\* turns.  Two keys never make a score-based promotion.
TTLKeys == 2
TTLVals == 2
TTLSeconds == 1
TTLTime == 2
TTLScore == 2
TTLHits == 2
TTLMisses == 1
TTLOverflows == 1
TTLEvictions == 1
TTLCounts == 2

NextTTL == Calls \/ TTLCalls \/ PromoteEvictFree \/ BgPasses \/ BgSweeps \/ AdvanceTime

InitTTL ==
    InitWith({1}, {0, 1}, {FALSE, TRUE}, {TRUE}, {"seq"},
             Bounds(TTLKeys, TTLVals, TTLSeconds, TTLTime, TTLScore, TTLHits, TTLMisses,
                    TTLOverflows, TTLEvictions, TTLCounts))

SpecTTL == InitTTL /\ [][NextTTL]_vars

\* SpecRace: two keys without TTL on the same shards; callers run between
\* the locked sections of a pass of the background task.
RaceKeys == 2
RaceVals == 1
RaceScore == 2
RaceHits == 4
RaceEvictions == 1

NextRace == Calls \/ PromoteEvictFree \/ BgPasses

InitRace ==
    InitWith({1}, {0, 1}, {FALSE}, {TRUE}, {"conc"},
             Bounds(RaceKeys, RaceVals, 0, 0, RaceScore, RaceHits, 0, 0, RaceEvictions, 0))

SpecRace == InitRace /\ [][NextRace]_vars

\* SpecSweep: two keys with a TTL of 0 seconds and a clock that advances;
\* callers (Pause and Resume among them) run between the locked sections of
\* a pass of the background task.
SweepKeys == 2
SweepVals == 1
SweepTime == 2
SweepScore == 1
SweepHits == 1
SweepMisses == 1
SweepEvictions == 1
SweepTTLCount == 2

NextSweep ==
    Calls \/ TTLCalls \/ PromoteEvictFree \/ BgPasses \/ BgSweeps \/ PauseResume \/ AdvanceTime

InitSweep ==
    InitWith({1}, {0, 1}, {FALSE}, {TRUE}, {"conc"},
             Bounds(SweepKeys, SweepVals, 0, SweepTime, SweepScore, SweepHits,
                    SweepMisses, 0, SweepEvictions, SweepTTLCount))

SpecSweep == InitSweep /\ [][NextSweep]_vars

\* Client threads whose counter updates interleave with one another's locked
\* sections and with the background passes.
CountKeys == 2
CountVals == 1
CountSeconds == 1
CountScore == 3
CountGets == 3
CountRejected == 2
CountEvictions == 1
CountTTLs == 2

ThreadCalls ==
    \E t \in Threads :
        \/ \E k \in Keys : GetCall(t, k)
        \/ \E k \in Keys, v \in Vals : SetCall(t, k, v)
        \/ \E k \in Keys, v \in Vals, ttl \in TTLs : SetTTLCall(t, k, v, ttl)
        \/ CountReturn(t)

NextCount == ThreadCalls \/ PromoteEvictFree \/ BgPasses

InitCount ==
    InitWith({1}, {0, 1}, {FALSE, TRUE}, {TRUE}, {"conc"},
             Bounds(CountKeys, CountVals, CountSeconds, 0, CountScore, CountGets, 0,
                    CountRejected, CountEvictions, CountTTLs))

SpecCount == InitCount /\ [][NextCount]_vars

\* Four keys, set and read by one caller: an overflow of two with a full MFU.
SkipKeys == 4
SkipVals == 1
SkipScore == 3
SkipHits == 5
SkipEvictions == 1

SetGet ==
    \/ \E k \in Keys, v \in Vals : Set(k, v)
    \/ \E k \in Keys : Get(k)

NextSkip == SetGet \/ PromoteEvict \/ BgPasses

InitSkip ==
    InitWith({1}, {0, 1}, {FALSE}, {TRUE}, {"seq"},
             Bounds(SkipKeys, SkipVals, 0, 0, SkipScore, SkipHits, 0, 0, SkipEvictions, 0))

SpecSkip == InitSkip /\ [][NextSkip]_vars

\* Three keys and two values, through every call of one caller and every step
\* of the passes.
IntegrityKeys == 3
IntegrityVals == 2
IntegrityScore == 3
IntegrityHits == 5
IntegrityEvictions == 2

NextIntegrity == Calls \/ PromoteEvict \/ BgPasses

InitIntegrity ==
    InitWith({1}, {0, 1}, {FALSE}, {TRUE}, {"seq"},
             Bounds(IntegrityKeys, IntegrityVals, 0, 0, IntegrityScore, IntegrityHits, 0, 0,
                    IntegrityEvictions, 0))

SpecIntegrity == InitIntegrity /\ [][NextIntegrity]_vars

\* Four keys, with callers that set, read and flush between the passes and in
\* the window of a pass before its LowScores.
WindowKeys == 4
WindowVals == 1
WindowScore == 3
WindowHits == 5
WindowEvictions == 1

PromoteEvictTiers ==
    \E p \in Procs :
        \/ PEOverflowStep(p)
        \/ PEScanStep(p)
        \/ PEFreeStep(p)
        \/ PELowStep(p)
        \/ PEScoreStep(p)
        \/ PEEvictStep(p)

NextWindow == SetGet \/ FlushMru \/ PromoteEvictTiers \/ BgPasses

InitWindow ==
    InitWith({1}, {1}, {FALSE}, {TRUE}, {"window"},
             Bounds(WindowKeys, WindowVals, 0, 0, WindowScore, WindowHits, 0, 0,
                    WindowEvictions, 0))

SpecWindow == InitWindow /\ [][NextWindow]_vars

\* Caches with and without a background task (AutoEvict > 0 and AutoEvict 0):
\* two keys with a TTL of 0 seconds, a clock that advances, Pause and Resume,
\* with and without NoOverflow.
\* Without the task the caller of a set runs promoteEvict itself; with it,
\* callers run between the locked sections of the task's passes.
InlineKeys == 2
InlineVals == 1
InlineTime == 2
InlineScore == 1
InlineHits == 1
InlineEvictions == 1
InlineTTLCount == 1
InlineOverflows == 1

NextInline ==
    Calls \/ TTLCalls \/ PromoteEvictFree \/ BgPasses \/ BgSweeps \/ PauseResume \/ AdvanceTime

InitInline ==
    InitWith({1}, {0, 1}, {FALSE, TRUE}, {FALSE, TRUE}, {"conc"},
             Bounds(InlineKeys, InlineVals, 0, InlineTime, InlineScore, InlineHits, 0,
                    InlineOverflows, InlineEvictions, InlineTTLCount))

SpecInline == InitInline /\ [][NextInline]_vars

\* A cache with a background task that is closed: two keys, callers between
\* the locked sections of the task's passes.
CloseKeys == 2
CloseVals == 1
CloseScore == 2
CloseHits == 2
CloseEvictions == 2

NextClose == SetGet \/ PromoteEvictFree \/ BgPasses \/ Close \/ BgDone

InitClose ==
    InitWith({1}, {0, 1}, {FALSE}, {TRUE}, {"conc"},
             Bounds(CloseKeys, CloseVals, 0, 0, CloseScore, CloseHits, 0, 0, CloseEvictions, 0))

SpecClose == InitClose /\ [][NextClose]_vars

\* New, called once with a Config: shard counts around the powers of two and at
\* the ends of the int range, and sizes that are and are not multiples of them.
ShardCounts == {MinInt, MinInt + 1, -512, -2, -1, 0, 1, 2, 3, 4, 6, 8, 512, 513, MaxInt}
MruSizes == {0, 1, 2, 3, 4, 5, 8, 9, 511, 512, 513, 30000}
MfuSizes == {0, 1, 2, 3, 7, 8, 9, 512, 10000}

Configs ==
    [ShardCount : ShardCounts, MRUSize : MruSizes, MFUSize : MfuSizes,
     AutoEvict : {0, AutoEvict}, NoOverflow : {FALSE}]

New(c) ==
    /\ b.built = "unbuilt"
    /\ b' = NewBicache(c).b
    /\ s' = NewBicache(c).shard
    /\ UNCHANGED <<now, proc, sweep, sched, bnd, calls, lastSet>>

NextNew == \E c \in Configs : New(c)

InitNew ==
    /\ bnd = Bounds(0, 0, 0, 0, 0, 0, 0, 0, 0, 0)
    /\ s = InitShard(0, 0, FALSE)
    /\ b = NotBuilt([ShardCount |-> 0, MRUSize |-> 0, MFUSize |-> 0, AutoEvict |-> 0,
                      NoOverflow |-> FALSE], "unbuilt")
    /\ now = 0
    /\ proc = [p \in 1..MaxProcs |-> IdleProc]
    /\ sweep = [expired |-> {}, nearestExpire |-> 0, evicted |-> 0]
    /\ sched = "seq"
    /\ calls = NoCalls
    /\ lastSet = <<>>

SpecNew == InitNew /\ [][NextNew]_vars

\* Client threads that hold the shard's Lock over more than one step, beside
\* the passes of the background task and a thread that lists the keys.
LockKeys == 2
LockVals == 1
LockEvictions == 2

LockedCalls ==
    {<<"Set", k, v>> : k \in Keys, v \in Vals} \cup {<<"Del", k>> : k \in Keys}
        \cup {<<"FlushMru">>}

ThreadLocks ==
    \E t \in Threads :
        \/ \E c \in LockedCalls : LockCall(t, c)
        \/ UnlockCall(t)
        \/ ListCall(t)
        \/ ListReturn(t)

NextLock == ThreadLocks \/ PromoteEvictFree \/ BgPasses

InitLock ==
    InitWith({1}, {0, 1}, {FALSE}, {TRUE}, {"conc"},
             Bounds(LockKeys, LockVals, 0, 0, 0, 0, 0, 0, LockEvictions, 0))

SpecLock == InitLock /\ [][NextLock]_vars

\* SpecPair: no background task, and two threads whose Sets each run
\* promoteEvict after their Unlock; the steps of the two passes interleave
\* with each other and with further calls.  The MFU list has no slot or two,
\* so that two passes can each find a free one.
PairThreads == 2
PairKeys == 3
PairVals == 1
PairScore == 2
PairHits == 2
PairEvictions == 2

NextPair == SetGet \/ PromoteEvictFree

InitPair ==
    InitThreads(PairThreads, {1}, {0, 2}, {FALSE}, {FALSE}, {"conc"},
                Bounds(PairKeys, PairVals, 0, 0, PairScore, PairHits, 0, 0, PairEvictions, 0))

SpecPair == InitPair /\ [][NextPair]_vars

\* SpecSll: the scored list by itself, with its next and prev pointers.  Two
\* lists made by sll.New and three Node objects; every move, push and remove
\* is called on every list and node it may be called on: a move or a Remove
\* on a node of the receiving list, a push on a node that is in no list.
SllNodes == 3
SllLists == 2

\* A pointer is the address of a Node object or nil.  The addresses past
\* SllNodes are those of the root sentinels.
Root(l) == SllNodes + l

NilNode == [next |-> Nil, prev |-> Nil, list |-> Nil]

\* insertAt(n, at), statement by statement.
insertAtForward(S, n, at) ==
    IF S.panic \/ n = Nil \/ at = Nil THEN [S EXCEPT !.panic = TRUE]
    ELSE LET A == [S.heap EXCEPT ![n].next = S.heap[at].next]
             B == [A EXCEPT ![at].next = n]
         IN  [S EXCEPT !.heap = [B EXCEPT ![n].prev = at]]

insertAt(S, n, at) ==
    IF S.panic \/ n = Nil \/ at = Nil THEN [S EXCEPT !.panic = TRUE]
    ELSE LET A == [S.heap EXCEPT ![n].next = S.heap[at].next]
             B == [A EXCEPT ![at].next = n]
             C == [B EXCEPT ![n].prev = at]
         IN  IF C[n].next = Nil THEN [S EXCEPT !.panic = TRUE]
             ELSE [S EXCEPT !.heap = [C EXCEPT ![C[n].next].prev = n]]

\* pull(n), and the first two statements of Remove: the operands n.next and
\* n.prev are evaluated first, then the two links are assigned in order.
pull(S, n) ==
    IF S.panic \/ n = Nil THEN [S EXCEPT !.panic = TRUE]
    ELSE LET next == S.heap[n].next
             prev == S.heap[n].prev
         IN  IF next = Nil \/ prev = Nil THEN [S EXCEPT !.panic = TRUE]
             ELSE LET A == [S.heap EXCEPT ![next].prev = prev]
                      B == [A EXCEPT ![prev].next = next]
                  IN  [S EXCEPT !.heap = [B EXCEPT ![n].next = Nil, ![n].prev = Nil]]

\* Node.Next and Node.Prev: nil at the root of the node's list.
SllNext(S, n) ==
    IF S.heap[n].list = Nil THEN Nil
    ELSE IF S.heap[n].next # Root(S.heap[n].list) THEN S.heap[n].next ELSE Nil

SllPrev(S, n) ==
    IF S.heap[n].list = Nil THEN Nil
    ELSE IF S.heap[n].prev # Root(S.heap[n].list) THEN S.heap[n].prev ELSE Nil

\* The call made last.
Called(c) == [calls EXCEPT !.th[1].call = c]

\* The nodes that Remove or a move may be called on, and those a push may.
InList(l) == {n \in 1..SllNodes : s.heap[n].list = l /\ s.heap[n].next # Nil}
Detached == {n \in 1..SllNodes : s.heap[n].next = Nil}

\* Sll.MoveToHead
SllMoveToHead(l, n) ==
    /\ ~s.panic
    /\ n \in InList(l)
    /\ s' = IF s.heap[Root(l)].prev = n THEN s
            ELSE LET P == pull(s, n)
                 IN  IF P.panic THEN P ELSE insertAt(P, n, P.heap[Root(l)].prev)
    /\ calls' = Called(<<"MoveToHead", l, n>>)
    /\ UNCHANGED <<b, now, proc, sweep, sched, bnd, lastSet>>

\* Sll.MoveToTail
SllMoveToTail(l, n) ==
    /\ ~s.panic
    /\ n \in InList(l)
    /\ s' = IF s.heap[Root(l)].next = n THEN s
            ELSE LET P == pull(s, n)
                 IN  IF P.panic THEN P ELSE insertAt(P, n, Root(l))
    /\ calls' = Called(<<"MoveToTail", l, n>>)
    /\ UNCHANGED <<b, now, proc, sweep, sched, bnd, lastSet>>

\* Sll.PushHeadNode
SllPushHeadNode(l, n) ==
    /\ ~s.panic
    /\ n \in Detached
    /\ LET A == [s EXCEPT !.heap[n].list = l, !.len[l] = @ + 1]
       IN  s' = insertAt(A, n, A.heap[Root(l)].prev)
    /\ calls' = Called(<<"PushHeadNode", l, n>>)
    /\ UNCHANGED <<b, now, proc, sweep, sched, bnd, lastSet>>

\* Sll.PushTailNode
SllPushTailNode(l, n) ==
    /\ ~s.panic
    /\ n \in Detached
    /\ LET A == [s EXCEPT !.heap[n].list = l, !.len[l] = @ + 1]
       IN  s' = insertAt(A, n, Root(l))
    /\ calls' = Called(<<"PushTailNode", l, n>>)
    /\ UNCHANGED <<b, now, proc, sweep, sched, bnd, lastSet>>

\* Sll.Remove
SllRemove(l, n) ==
    /\ ~s.panic
    /\ n \in InList(l)
    /\ LET P == pull(s, n)
       IN  s' = IF P.panic THEN P ELSE [P EXCEPT !.len[l] = @ - 1]
    /\ calls' = Called(<<"Remove", l, n>>)
    /\ UNCHANGED <<b, now, proc, sweep, sched, bnd, lastSet>>

NextSll ==
    \E l \in 1..SllLists, n \in 1..SllNodes :
        \/ SllMoveToHead(l, n)
        \/ SllMoveToTail(l, n)
        \/ SllPushHeadNode(l, n)
        \/ SllPushTailNode(l, n)
        \/ SllRemove(l, n)

\* sll.New for each list (the root's next and prev are the root), and Node
\* objects that are in no list.
InitSll ==
    /\ bnd = Bounds(0, 0, 0, 0, 0, 0, 0, 0, 0, 0)
    /\ s = [heap  |-> [a \in 1..(SllNodes + SllLists) |->
                          IF a <= SllNodes THEN NilNode
                          ELSE [next |-> a, prev |-> a, list |-> Nil]],
            len   |-> [l \in 1..SllLists |-> 0],
            panic |-> FALSE]
    /\ b = NotBuilt([ShardCount |-> 0, MRUSize |-> 0, MFUSize |-> 0, AutoEvict |-> 0,
                     NoOverflow |-> FALSE], "unbuilt")
    /\ now = 0
    /\ proc = [p \in 1..MaxProcs |-> IdleProc]
    /\ sweep = [expired |-> {}, nearestExpire |-> 0, evicted |-> 0]
    /\ sched = "seq"
    /\ calls = NoCalls
    /\ lastSet = <<>>

SpecSll == InitSll /\ [][NextSll]_vars

\* Listing: a sequential cache of three keys with one slot in each tier, so
\* that keys of both tiers and of equal and unequal scores are listed.
ListKeys == 3
ListVals == 1
ListScore == 3
ListHits == 5
ListEvictions == 1

NextList == SetGet \/ PromoteEvictTiers \/ BgPasses

InitList ==
    InitWith({1}, {1}, {FALSE}, {TRUE}, {"seq"},
             Bounds(ListKeys, ListVals, 0, 0, ListScore, ListHits, 0, 0, ListEvictions, 0))

SpecList == InitList /\ [][NextList]_vars

\* ------------------------------------------------------------ properties
\* What an observer sees of a shard: the keys linked in each list, head first.
KeysOf(S, ring) == [i \in 1..Len(ring) |-> S.nodes[ring[i]].k]

MruKeys(S) == KeysOf(S, S.mruCache.ring)

MfuKeys(S) == KeysOf(S, S.mfuCache.ring)

\* The node of a key of the cache map.
NodeOf(S, k) == S.nodes[S.cacheMap[k].node]

\* C1. Round trip: while a key stays in the cache, Get of it returns the value
\* of the most recent successful Set or SetTTL of it; a Set of a key that is
\* already held replaces the value that Get returns.
C1_RoundTrip ==
    \A k \in DOMAIN s.cacheMap : lastSet[k] # Nil /\ GetLocked(s, k).v = lastSet[k]

\* A key that was read, and whose value is the second one.
C1_Witness ==
    \E k \in DOMAIN s.cacheMap :
        /\ lastSet[k] = 2
        /\ GetLocked(s, k).v = 2
        /\ NodeOf(s, k).Score > 0
        /\ s.cacheMap[k].state = 1

\* C2. Map coverage and tier exclusivity: between the locked sections of the
\* operations, the keys of the cache map are the keys of the nodes linked in
\* the MRU and MFU lists, and no key is linked twice.
C2_MapCoverage ==
    /\ DOMAIN s.cacheMap = Range(MruKeys(s)) \cup Range(MfuKeys(s))
    /\ Cardinality(Range(MruKeys(s)) \cup Range(MfuKeys(s))) =
          Len(s.mruCache.ring) + Len(s.mfuCache.ring)

\* C3. MFU bound: the MFU list never links more nodes than the MFU capacity.
C3_MFUBound == Len(s.mfuCache.ring) <= s.mfuCap

\* C4. TTL subset: every key of the TTL map is a key of the cache map.
C4_TTLSubset == DOMAIN s.ttlMap \subseteq DOMAIN s.cacheMap

\* C5. NoOverflow is honored: Set and SetTTL return false exactly when
\* NoOverflow is configured, the key is not in the cache map and the MRU list
\* holds at least MRU-capacity nodes; and with NoOverflow the MRU list never
\* holds more than MRU-capacity nodes.
C5_NoOverflow ==
    /\ \A k \in Keys, v \in Vals :
          LET rejected == s.noOverflow /\ k \notin DOMAIN s.cacheMap /\
                          Len(s.mruCache.ring) >= s.mruCap
          IN  /\ SetLocked(s, k, v).ok = ~rejected
              /\ \A t \in TTLs : SetTTLLocked(s, k, v, t, now).ok = ~rejected
    /\ s.noOverflow => Len(s.mruCache.ring) <= s.mruCap

\* A set was rejected: the MRU list is full and the overflows counter moved.
C5_Witness ==
    /\ s.noOverflow
    /\ s.counters.overflows > 0
    /\ Len(s.mruCache.ring) = s.mruCap
    /\ \E k \in Keys : ~SetLocked(s, k, 1).ok

\* C6. A rejected Set or SetTTL (the only calls that move the overflows
\* counter) changes nothing but the overflows counter.
C6_RejectedSetFrame ==
    [][s'.counters.overflows # s.counters.overflows =>
         s' = [s EXCEPT !.counters.overflows = @ + 1]]_vars

\* C7. A promote-evict pass that runs alone leaves, when it returns, no more
\* than MRU-capacity nodes in the MRU list.
C7_PassRemovesOverflow ==
    [][\A p \in Procs : proc[p].pc # "idle" /\ proc'[p].pc = "idle" =>
          Len(s'.mruCache.ring) <= s'.mruCap]_vars

\* C8. TTL expiry: Get of a key with a TTL returns its value until the expiry;
\* when a tick of the background task has run to its end, Get misses every
\* key whose expiry had passed when the tick started.
C8_TTLExpiry ==
    /\ [](\A k \in DOMAIN s.cacheMap \cap DOMAIN s.ttlMap :
             now <= s.ttlMap[k] => GetLocked(s, k).v = lastSet[k])
    /\ [][proc[1].pc # "idle" /\ proc'[1].pc = "idle" =>
            \A k \in DOMAIN s'.ttlMap :
                s'.ttlMap[k] < proc[1].start => GetLocked(s', k).v = Nil]_vars

C10_GetEffect ==
    [][\A k \in Keys : Get(k) =>
          /\ s'.mruCache = s.mruCache
          /\ s'.mfuCache = s.mfuCache
          /\ s'.cacheMap = s.cacheMap
          /\ s'.ttlMap = s.ttlMap
          /\ IF k \in DOMAIN s.cacheMap
             THEN /\ NodeOf(s', k).Score = NodeOf(s, k).Score + 1
                  /\ \A n \in NodeIds \ {s.cacheMap[k].node} : s'.nodes[n] = s.nodes[n]
                  /\ s'.counters = [s.counters EXCEPT !.hits = @ + 1]
                  /\ GetLocked(s, k).v = NodeOf(s, k).v
             ELSE /\ s'.nodes = s.nodes
                  /\ s'.counters = [s.counters EXCEPT !.misses = @ + 1]
                  /\ GetLocked(s, k).v = Nil]_vars

\* A key of the MFU list was read, and an absent key was looked up.
C10_Witness ==
    /\ s.counters.misses > 0
    /\ \E k \in DOMAIN s.cacheMap : s.cacheMap[k].state = 1 /\ NodeOf(s, k).Score = 3

\* C11: whatever the interleaving of the threads' gets and sets, once every
\* call has returned the hits and misses of Stats add up to the number of Get
\* calls made, and its overflows equal the number of Set / SetTTL calls that
\* returned false.
C11_CounterAccounting ==
    (\A t \in Threads : calls.th[t].pc = "idle") =>
        /\ Stats(s).Hits + Stats(s).Misses = calls.gets
        /\ Stats(s).Overflows = calls.rejected

\* Both threads have made calls that have all returned: hits, a miss and two
\* rejected sets.
C11_Witness ==
    /\ \A t \in Threads : calls.th[t].pc = "idle"
    /\ Stats(s).Hits >= 1 /\ Stats(s).Misses >= 1
    /\ calls.gets = 3 /\ calls.rejected = 2

\* The keys other than k keep their map entries, their expiries, their values
\* and their order in the lists from S to T.
OthersKept(S, T, gone) ==
    /\ DOMAIN T.cacheMap = DOMAIN S.cacheMap \ gone
    /\ \A j \in DOMAIN T.cacheMap :
          T.cacheMap[j] = S.cacheMap[j] /\ NodeOf(T, j) = NodeOf(S, j)
    /\ \A j \in DOMAIN S.ttlMap \ gone : j \in DOMAIN T.ttlMap /\ T.ttlMap[j] = S.ttlMap[j]
    /\ MruKeys(T) = SelectSeq(MruKeys(S), LAMBDA j : j \notin gone)
    /\ MfuKeys(T) = SelectSeq(MfuKeys(S), LAMBDA j : j \notin gone)

\* C12: Del(k) of a held key removes its map entry, its TTL entry and its
\* node from the list that holds it, so that a Get(k) after it misses and that
\* list is one shorter; Del of an absent key changes nothing; a second Del of
\* the same key changes nothing more; the other keys are unaffected.
C12_DelEffect ==
    [][\A k \in Keys : Del(k) =>
          /\ DelLocked(DelLocked(s, k), k) = DelLocked(s, k)
          /\ DelLocked(s', k) = s'
          /\ s'.counters = s.counters
          /\ IF k \in DOMAIN s.cacheMap
             THEN /\ k \notin DOMAIN s'.ttlMap
                  /\ GetLocked(s', k).v = Nil
                  /\ OthersKept(s, s', {k})
                  /\ Stats(s').MruSize =
                        Stats(s).MruSize - (IF s.cacheMap[k].state = 0 THEN 1 ELSE 0)
                  /\ Stats(s').MfuSize =
                        Stats(s).MfuSize - (IF s.cacheMap[k].state = 1 THEN 1 ELSE 0)
                  /\ Len(s'.mruCache.ring) + Len(s'.mfuCache.ring) =
                        Len(s.mruCache.ring) + Len(s.mfuCache.ring) - 1
             ELSE s' = s]_vars

\* The keys of the cache map that carry tier tag st.
Tagged(S, st) == {k \in DOMAIN S.cacheMap : S.cacheMap[k].state = st}

\* What a flush of the tier of tag st leaves of state S in state T: the keys
\* of that tier are gone with their expiries and nodes, the keys of the other
\* tier are still retrievable, and a flush of an empty tier changes nothing.
TierFlushed(S, T, st) ==
    /\ OthersKept(S, T, Tagged(S, st))
    /\ \A k \in Tagged(S, st) : k \notin DOMAIN T.ttlMap /\ GetLocked(T, k).v = Nil
    /\ \A k \in Tagged(S, 1 - st) : GetLocked(T, k).v = GetLocked(S, k).v
    /\ IF st = 0 THEN Stats(T).MruSize = 0 /\ Stats(T).MfuSize = Stats(S).MfuSize
                 ELSE Stats(T).MfuSize = 0 /\ Stats(T).MruSize = Stats(S).MruSize
    /\ T.counters = S.counters
    /\ Tagged(S, st) = {} => T = S

\* C13: FlushMru removes exactly the keys tagged MRU (map entry, TTL entry and
\* node) and leaves every MFU key retrievable; FlushMfu does the same with
\* the tiers exchanged; FlushAll leaves both lists and both maps empty;
\* flushing an empty tier changes nothing, and a second FlushAll changes
\* nothing more.
C13_FlushEffect ==
    [][/\ FlushMru => TierFlushed(s, s', 0)
       /\ FlushMfu => TierFlushed(s, s', 1)
       /\ FlushAll =>
             /\ s'.cacheMap = <<>> /\ s'.ttlMap = <<>>
             /\ s'.mruCache = NewSll /\ s'.mfuCache = NewSll
             /\ FlushAllLocked(s', now) = s']_vars

\* C14: with an MFU capacity of 0 the MFU list is always empty and every key
\* is tagged MRU; a set puts its key at the head of the MRU list and a get
\* leaves the order alone, so that the list is in the order of the sets; and a
\* pass that found an overflow of o > 0 removes exactly the o keys nearest
\* the tail and leaves the others as they were.
C14_LruOnly ==
    /\ [](s.mfuCap = 0 => s.mfuCache = NewSll /\ Tagged(s, 1) = {})
    /\ [][s.mfuCap = 0 =>
            /\ \A k \in Keys : Get(k) => MruKeys(s') = MruKeys(s)
            /\ \A k \in Keys, v \in Vals :
                  Set(k, v) /\ SetLocked(s, k, v).ok =>
                      MruKeys(s') = <<k>> \o SelectSeq(MruKeys(s), LAMBDA j : j # k)
            /\ \A p \in Procs :
                  PELruStep(p) =>
                      LET o    == proc[p].mruOverflow
                          kept == SubSeq(MruKeys(s), 1, Len(MruKeys(s)) - o)
                      IN  /\ o > 0
                          /\ MruKeys(s') = kept
                          /\ Len(kept) = Len(MruKeys(s)) - o
                          /\ DOMAIN s'.cacheMap = Range(kept)
                          /\ \A k \in Range(kept) :
                                s'.cacheMap[k] = s.cacheMap[k] /\ NodeOf(s', k) = NodeOf(s, k)]_vars

\* The nodes that a step links into the MFU list, in the order of the list.
Promoted(S, T) == SelectSeq(T.mfuCache.ring, LAMBDA n : n \notin Range(S.mfuCache.ring))

\* The nodes that a step unlinks from the MFU list.
Demoted(S, T) == SelectSeq(S.mfuCache.ring, LAMBDA n : n \notin Range(T.mfuCache.ring))

FreeSlots(S) == IF S.mfuCap > Len(S.mfuCache.ring) THEN S.mfuCap - Len(S.mfuCache.ring) ELSE 0

\* C15: the nodes that the free-slot promotion of a pass with overflow o > 0
\* and f free MFU slots moves are among the o highest-scoring nodes of the MRU
\* list, are moved in descending order of score, are at most min(f, o), and
\* have a score of 2 or more each, and no candidate is left behind that scores
\* more than a moved one or that had a slot and a score of 2; the eviction
\* that ends the pass takes nodes from the MRU tail only and leaves the MFU
\* keys and the keys of the MRU-capacity nodes nearest the head retrievable.
C15_FreeSlotPromotion ==
    [][\A p \in Procs :
         /\ PEFreeStep(p) =>
               LET o     == proc[p].mruOverflow
                   cand  == Range(proc[p].mruToPromoteEvict)
                   moved == Promoted(s, s')
                   left  == cand \ Range(moved)
               IN  /\ o > 0
                   /\ Cardinality(cand) = o
                   /\ cand \subseteq Range(s.mruCache.ring)
                   /\ \A n \in cand, m \in Range(s.mruCache.ring) \ cand :
                         s.nodes[n].Score >= s.nodes[m].Score
                   /\ Range(moved) \subseteq cand
                   /\ Len(moved) <= Min(FreeSlots(s), o)
                   /\ s'.mfuCache.ring = s.mfuCache.ring \o moved
                   /\ \A i \in 1..Len(moved) :
                         /\ s.nodes[moved[i]].Score >= 2
                         /\ i > 1 => s.nodes[moved[i - 1]].Score >= s.nodes[moved[i]].Score
                         /\ s'.cacheMap[s.nodes[moved[i]].k] = [node |-> moved[i], state |-> 1]
                         /\ GetLocked(s', s.nodes[moved[i]].k).v = s.nodes[moved[i]].v
                   /\ \A n \in left :
                         /\ \A m \in Range(moved) : s.nodes[m].Score >= s.nodes[n].Score
                         /\ Len(moved) = Min(FreeSlots(s), o) \/ s.nodes[n].Score < 2
                   /\ Demoted(s, s') = <<>>
         /\ PEEvictStep(p) =>
               /\ s'.mfuCache = s.mfuCache
               /\ Len(s'.mruCache.ring) >= Min(s.mruCap, Len(s.mruCache.ring))
               /\ MruKeys(s') = SubSeq(MruKeys(s), 1, Len(s'.mruCache.ring))
               /\ \A k \in Range(MruKeys(s')) \cup Range(MfuKeys(s')) :
                     GetLocked(s', k).v = GetLocked(s, k).v /\ GetLocked(s', k).v # Nil]_vars

\* The candidates that a pass has not promoted into free slots.
Remaining(P) == SubSeq(P.mruToPromoteEvict, P.promoted + 1, Len(P.mruToPromoteEvict))

\* C16: a step demotes nodes of the MFU list to the MRU list only as the
\* score-based promotion of a pass, which promotes as many candidates as it
\* demotes nodes, the i-th promoted in the place of the i-th demoted and with
\* a strictly greater score; a node of the MFU list whose score is equal to
\* or greater than the score of every remaining candidate is not demoted.
C16_Stability ==
    [][LET dem == Demoted(s, s')
           pro == Promoted(s, s')
       IN  Range(dem) \cap Range(s'.mruCache.ring) # {} =>
             \E p \in Procs :
                /\ PEScoreStep(p)
                /\ Len(pro) = Len(dem)
                /\ Range(pro) \subseteq Range(Remaining(proc[p]))
                /\ \A d \in Range(dem) :
                      /\ d \in Range(s'.mruCache.ring)
                      /\ \E c \in Range(pro) : s.nodes[c].Score > s.nodes[d].Score
                      /\ \E c \in Range(Remaining(proc[p])) :
                            s.nodes[c].Score > s.nodes[d].Score
                /\ \A i \in 1..Len(dem) :
                      \E c \in Range(pro) :
                         /\ s.nodes[c].Score > s.nodes[proc[p].bottomMFU[i]].Score
                         /\ proc[p].bottomMFU[i] \in Range(dem)]_vars

\* A pass has exchanged the key of the MFU list for a key that was read more
\* often: the demoted key is at the head of the MRU list.
C16_Witness ==
    \E p \in Procs :
        /\ proc[p].pc = "evict" /\ proc[p].promotedByScore = 1
        /\ NodeOf(s, MfuKeys(s)[1]).Score = 3
        /\ NodeOf(s, MruKeys(s)[1]).Score = 2
        /\ s.cacheMap[MruKeys(s)[1]].state = 0

\* The least and the greatest score of a non-empty sequence of nodes.
LowestScore(S, q) == CHOOSE x \in {S.nodes[n].Score : n \in Range(q)} :
                        \A n \in Range(q) : x <= S.nodes[n].Score

HighestScore(S, q) == CHOOSE x \in {S.nodes[n].Score : n \in Range(q)} :
                         \A n \in Range(q) : x >= S.nodes[n].Score

\* The pass of p skips the score-based promotion, and its eviction takes the
\* whole remainder from the MRU tail and nothing from the MFU list.
Skips(p) ==
    /\ PELowStep(p) => proc'[p].pc = "evict" /\ proc'[p].promotedByScore = 0
    /\ PEEvictStep(p) /\ proc[p].promotedByScore = 0 =>
          /\ s'.mfuCache = s.mfuCache
          /\ MruKeys(s') = SubSeq(MruKeys(s), 1, Len(MruKeys(s)) - proc[p].mruOverflow)

KeptAs(S, T, k, st) ==
    /\ k \in DOMAIN S.cacheMap /\ k \in DOMAIN T.cacheMap
    /\ T.cacheMap[k] = [node |-> S.cacheMap[k].node, state |-> st]
    /\ GetLocked(T, k).v = GetLocked(S, k).v
    /\ GetLocked(T, k).v # Nil

\* C18: the score-based promotion of a pass leaves every key it promotes
\* tagged MFU and linked in the MFU list, and every key it demotes tagged MRU
\* and linked at the head of the MRU list, both with their values; and the
\* eviction that ends such a pass leaves the demoted keys, which are at the
\* head of the MRU list, and the keys tagged MFU in the cache with their
\* values and tags.
C18_ReplacementKeepsBoth ==
    [][\A p \in Procs :
          /\ PEScoreStep(p) =>
                LET dem == Demoted(s, s')
                    pro == Promoted(s, s')
                IN  /\ \A i \in 1..Len(pro) : KeptAs(s, s', s.nodes[pro[i]].k, 1)
                    /\ \A i \in 1..Len(dem) : KeptAs(s, s', s.nodes[dem[i]].k, 0)
                    /\ Range(SubSeq(s'.mruCache.ring, 1, Len(dem))) = Range(dem)
                    /\ Len(dem) = proc'[p].promotedByScore
                    /\ DOMAIN s'.cacheMap = DOMAIN s.cacheMap
          /\ PEEvictStep(p) /\ proc[p].promotedByScore > 0 =>
                /\ \A i \in 1..proc[p].promotedByScore :
                      /\ i <= Len(MruKeys(s))
                      /\ KeptAs(s, s', MruKeys(s)[i], 0)
                      /\ MruKeys(s')[i] = MruKeys(s)[i]
                /\ \A k \in Tagged(s, 1) : KeptAs(s, s', k, 1)
                /\ MfuKeys(s') = MfuKeys(s)]_vars

\* C19: whatever sets, gets, deletes, flushes, evictions, promotions and
\* demotions came before, Get(k) returns nil or a value that was passed to a
\* Set or SetTTL of the key k itself: it reads a node that was made for k,
\* and the value is the one of the last successful set of k.
C19_ValueIntegrity ==
    \A k \in Keys :
        \/ GetLocked(s, k).v = Nil
        \/ /\ k \in DOMAIN s.cacheMap
           /\ NodeOf(s, k).k = k
           /\ lastSet[k] \in Vals
           /\ GetLocked(s, k).v = lastSet[k]

\* Two keys hold different values after one of them has replaced the other
\* in the MFU list.
C19_Witness ==
    \E p \in Procs, j \in DOMAIN s.cacheMap, k \in DOMAIN s.cacheMap :
        /\ proc[p].pc = "evict" /\ proc[p].promotedByScore = 1
        /\ s.cacheMap[j].state = 1 /\ s.cacheMap[k].state = 0
        /\ MruKeys(s)[1] = k
        /\ GetLocked(s, j).v = 1 /\ GetLocked(s, k).v = 2

\* C20: a Set leaves the TTL map as it is, so a key that has an expiry keeps
\* it; a SetTTL of a held key gives the key the expiry now + seconds, whether
\* it had none or another one, and leaves the expiries of the other keys.
C20_TTLOfSets ==
    \A k \in Keys, v \in Vals :
        /\ SetLocked(s, k, v).S.ttlMap = s.ttlMap
        /\ k \in DOMAIN s.cacheMap =>
              \A t \in TTLs :
                 /\ SetTTLLocked(s, k, v, t, now).ok
                 /\ SetTTLLocked(s, k, v, t, now).S.ttlMap =
                       MapPut(s.ttlMap, k, now + Second * t)

\* The only key that has an expiry was given it twice, the last time at the
\* present clock, which has moved, with no eviction in between.
C20_Witness ==
    \E k \in DOMAIN s.cacheMap :
        /\ DOMAIN s.ttlMap = {k}
        /\ DOMAIN s.cacheMap = {k}
        /\ s.ttlCount = 2 /\ s.counters.evictions = 0
        /\ now = Second
        /\ s.ttlMap[k] = now + Second
        /\ lastSet[k] = 2

\* Node n is the node of its key in the cache map of S, linked in the list of
\* the tier that the entry is tagged with.
Qualifies(S, n, st) ==
    /\ S.nodes[n].k \in DOMAIN S.cacheMap
    /\ S.cacheMap[S.nodes[n].k] = [node |-> n, state |-> st]
    /\ S.nodes[n].at = (IF st = 0 THEN "mru" ELSE "mfu")

\* C21: when a Del, a Flush or a Set has run between the top-k scan of a pass
\* and its locked sections, the pass never fails, and its promotions link
\* into the MFU list only candidates that are still the nodes of their keys in
\* the cache map and still in the MRU list, and change the tier tag of no
\* other key.  (The scan has found a candidate for every node of the overflow.)
C21_Revalidation ==
    [][\A p \in Procs :
          /\ PEFreeStep(p) \/ PEScoreStep(p)
          /\ Len(proc[p].mruToPromoteEvict) >= proc[p].mruOverflow
          =>   /\ ~s'.panic
               /\ \A n \in Range(Promoted(s, s')) : Qualifies(s, n, 0)
               /\ \A n \in Range(Demoted(s, s')) : Qualifies(s, n, 1)
               /\ \A k \in DOMAIN s.cacheMap \cap DOMAIN s'.cacheMap :
                     s'.cacheMap[k].state # s.cacheMap[k].state =>
                        s.cacheMap[k].node \in Range(Promoted(s, s')) \cup
                                               Range(Demoted(s, s'))]_vars

\* The keys that leave the cache map from S to T, and the keys that enter it.
Gone(S, T) == DOMAIN S.cacheMap \ DOMAIN T.cacheMap

Entered(S, T) == DOMAIN T.cacheMap \ DOMAIN S.cacheMap

\* The sizes that Stats reports, added up.
Held(S) == Stats(S).MruSize + Stats(S).MfuSize

\* C22: the evictions counter moves only in a TTL sweep and in a tail
\* eviction, by the number of keys that the sweep or the eviction removes from
\* the cache (the sweep adds its count after it has released the lock); Del,
\* the flushes, the sets and the gets leave it alone.  Hence the sizes of the
\* two lists plus the evictions grow by one with every new key that is set
\* and change with nothing else but a Del or a flush.
C22_EvictionAccounting ==
    [][/\ \A p \in Procs :
             PELruStep(p) \/ PEEvictStep(p) =>
                /\ s'.counters.evictions = s.counters.evictions + Cardinality(Gone(s, s'))
                /\ Held(s') = Held(s) - Cardinality(Gone(s, s'))
       /\ TTLEvictStep =>
             /\ sweep'.evicted = Cardinality(Gone(s, s'))
             /\ Held(s') = Held(s) - Cardinality(Gone(s, s'))
             /\ s'.counters.evictions = s.counters.evictions
       /\ TTLCountStep =>
             /\ s'.counters.evictions = s.counters.evictions + sweep.evicted
             /\ Held(s') = Held(s) /\ Gone(s, s') = {}
       /\ s'.counters.evictions # s.counters.evictions =>
             \E p \in Procs : proc[p].pc \in {"lru", "evict", "ttlCount"} /\ proc'[p] # proc[p]
       /\ (\A p \in Procs : proc'[p] = proc[p]) =>
             /\ s'.counters.evictions = s.counters.evictions
             /\ Cardinality(Entered(s, s')) <= 1
             /\ Held(s') = Held(s) + Cardinality(Entered(s, s')) - Cardinality(Gone(s, s'))
       /\ \A p \in Procs :
             proc[p].pc \in {"free", "score"} /\ proc'[p] # proc[p] =>
                Held(s') = Held(s) /\ Gone(s, s') = {}]_vars

\* A step of the promoteEvict or evictTTL that p is running.
PassStep(p) == proc[p].pc # "idle" /\ proc'[p] # proc[p]

\* C23: while the cache is paused (Pause has returned and Resume has not been
\* called) no step of a TTL sweep or of a promote-evict pass removes a key,
\* promotes or demotes one, whatever sets and gets are issued meanwhile.
C23_PauseSuspends ==
    [][b.paused = 1 /\ b'.paused = 1 =>
          \A p \in Procs :
             PassStep(p) =>
                /\ s'.cacheMap = s.cacheMap
                /\ s'.mruCache = s.mruCache
                /\ s'.mfuCache = s.mfuCache]_vars

\* C24: Close flushes nothing; once the context is canceled the background
\* task starts no maintenance cycle (the cycle in flight runs to its end);
\* and once the task has returned, no step evicts, promotes or demotes, so the
\* keys that are set stay in the MRU list.
C24_Shutdown ==
    [][/\ Close => s' = s
       /\ b.canceled => \A p \in Procs : proc[p].pc = "idle" => proc'[p].pc = "idle"
       /\ b.returned =>
             /\ Gone(s, s') = {}
             /\ s'.mfuCache = s.mfuCache
             /\ Len(s'.mruCache.ring) >= Len(s.mruCache.ring)]_vars

\* The powers of two that an int holds.
PowersOfTwo == {2 ^ i : i \in 0..(IntBits - 2)}

\* C25: New returns an error and no cache when the shard count is not zero and
\* not a power of two, or when the MRU size is 0; otherwise it returns a cache,
\* whose shard count is the configured one, or 512 for a configured 0.
C25_Validation ==
    b.built # "unbuilt" =>
        LET c == b.config
        IN  IF (c.ShardCount # 0 /\ c.ShardCount \notin PowersOfTwo) \/ c.MRUSize = 0
            THEN b.built = "error"
            ELSE /\ b.built = "cache"
                 /\ b.ShardCount = (IF c.ShardCount = 0 THEN 512 ELSE c.ShardCount)

\* The capacity cap of the shards fits the requested size with n shards: it
\* is the least capacity that n shards need to hold size keys.
Fits(cap, size, n) ==
    /\ cap * n >= size
    /\ (cap - 1) * n < size
    /\ cap * n - size <= n - 1

\* C26: in the cache that New returns, the MRU and the MFU capacity of a shard
\* are the configured size divided by the shard count and rounded up, Size is
\* the sum of the two capacities times the shard count, and each tier's
\* capacity over all shards is at least the configured size and exceeds it by
\* at most the shard count less one.
C26_CapacityFitting ==
    b.built = "cache" =>
        /\ Fits(s.mruCap, b.config.MRUSize, b.ShardCount)
        /\ Fits(s.mfuCap, b.config.MFUSize, b.ShardCount)
        /\ b.Size = (s.mfuCap + s.mruCap) * b.ShardCount

\* New has made a cache of 512 shards for an MFU of 10000 and an MRU of 30000
\* keys: its Size is 40448.
C26_Witness ==
    /\ b.built = "cache"
    /\ b.config.ShardCount = 0 /\ b.ShardCount = 512
    /\ b.config.MFUSize = 10000 /\ b.config.MRUSize = 30000
    /\ s.mfuCap = 20 /\ s.mruCap = 59
    /\ b.Size = 40448

\* C27: whatever the order in which the map is visited, List(n) returns
\* min(n, number of cached keys) entries, each the key, tier tag and score of
\* a cached key and no key twice, in non-increasing order of score; every
\* cached key that is left out has a score equal to or less than the least
\* score returned; and for n greater than the number of keys every cached key
\* is returned.
C27_List ==
    \A order \in MapOrders(s), n \in 0..(bnd.keys + 1) :
        LET r        == List(s, order, n)
            returned == {r[i].Key : i \in 1..Len(r)}
        IN  /\ Len(r) = Min(n, Cardinality(DOMAIN s.cacheMap))
            /\ Cardinality(returned) = Len(r)
            /\ returned \subseteq DOMAIN s.cacheMap
            /\ \A i \in 1..Len(r) :
                  /\ r[i].State = s.cacheMap[r[i].Key].state
                  /\ r[i].Score = NodeOf(s, r[i].Key).Score
                  /\ i > 1 => r[i - 1].Score >= r[i].Score
                  /\ \A k \in DOMAIN s.cacheMap \ returned : NodeOf(s, k).Score <= r[i].Score
            /\ n > Cardinality(DOMAIN s.cacheMap) => returned = DOMAIN s.cacheMap

\* Three keys are cached, one of them in the MFU list, and List(2) returns the
\* MFU key before an MRU key of a lower score, leaving out a key that the map
\* visits first.
C27_Witness ==
    /\ Cardinality(DOMAIN s.cacheMap) = 3
    /\ \E order \in MapOrders(s) :
          LET r == List(s, order, 2)
          IN  /\ r[1].State = 1 /\ r[2].State = 0
              /\ r[1].Score > r[2].Score /\ r[2].Score > 0
              /\ order[1] \notin {r[1].Key, r[2].Key}

\* The result r of a top-k selection over the nodes of a list: min(k, L)
\* distinct nodes of the list in ascending order of score, and every node left
\* out scores no more (high) or no less (low) than every node returned.
Selected(r, ring, k, high) ==
    LET got == {r[i] : i \in 1..Len(r)}
        in  == {ring[i] : i \in 1..Len(ring)}
    IN  /\ Len(r) = Min(k, Len(ring))
        /\ Cardinality(got) = Len(r)
        /\ got \subseteq in
        /\ \A i \in 2..Len(r) : s.nodes[r[i - 1]].Score <= s.nodes[r[i]].Score
        /\ \A n \in in \ got, m \in got :
              IF high THEN s.nodes[n].Score <= s.nodes[m].Score
              ELSE s.nodes[n].Score >= s.nodes[m].Score

\* C28: on either list of the shard, of length L, and for every k >= 1,
\* HighScores(k) returns min(k, L) distinct nodes of the list in ascending
\* order of score with no node left out scoring more than a node returned,
\* LowScores(k) returns min(k, L) distinct nodes in ascending order of score
\* with no node left out scoring less than a node returned, and on an empty
\* list both return an empty result; neither panics.
C28_TopK ==
    \A which \in {"mru", "mfu"}, k \in 1..(bnd.keys + 1) :
        LET ring == ListOf(s, which).ring
            H    == HighScores(s, which, k)
            L    == LowScores(s, which, k)
        IN  /\ ~H.panic /\ Selected(H.list, ring, k, TRUE)
            /\ ~L.panic /\ Selected(L.list, ring, k, FALSE)
            /\ ring = <<>> => H.list = <<>> /\ L.list = <<>>

\* The MRU list holds four nodes of three different scores, HighScores(2)
\* returns the node at its tail, which the second loop pushes over a node of
\* the first, and LowScores(2) returns the node at its head.
C28_Witness ==
    LET ring == s.mruCache.ring
        H    == HighScores(s, "mru", 2).list
        L    == LowScores(s, "mru", 2).list
    IN  /\ Len(ring) = 4
        /\ Cardinality({s.nodes[ring[i]].Score : i \in 1..4}) >= 3
        /\ ring[4] \in {H[1], H[2]}
        /\ ring[1] \in {L[1], L[2]}
        /\ s.nodes[H[1]].Score < s.nodes[H[2]].Score
        /\ s.nodes[L[1]].Score < s.nodes[L[2]].Score

\* Key k is cached before and after the step, and its score is one higher after.
Rose(k) ==
    /\ k \in DOMAIN s.cacheMap /\ k \in DOMAIN s'.cacheMap
    /\ NodeOf(s', k).Score = NodeOf(s, k).Score + 1

\* C29: over a step that leaves a key in the cache, the key keeps its node;
\* the node's score stays or rises by one, and rises only in a step that
\* counts one hit, raises no other key's score and leaves the key's value and
\* tier tag alone; a step that changes the tier tag (a promotion or a
\* demotion) or the value (a Set of the existing key) keeps the score, and a
\* change of the tier tag keeps the value.  A key that enters the cache
\* starts at score 0.
C29_ScoreMonotone ==
    [][\A k \in Keys :
          /\ k \in DOMAIN s.cacheMap /\ k \in DOMAIN s'.cacheMap =>
                LET e == s.cacheMap[k]
                    f == s'.cacheMap[k]
                    n == s.nodes[e.node]
                    m == s'.nodes[f.node]
                IN  /\ f.node = e.node
                    /\ m.k = k
                    /\ m.Score \in {n.Score, n.Score + 1}
                    /\ m.Score # n.Score =>
                          /\ s'.counters.hits = s.counters.hits + 1
                          /\ \A j \in Keys \ {k} : ~Rose(j)
                          /\ m.v = n.v
                          /\ f.state = e.state
                    /\ f.state # e.state => m.v = n.v
          /\ k \notin DOMAIN s.cacheMap /\ k \in DOMAIN s'.cacheMap =>
                NodeOf(s', k).Score = 0]_vars

\* After an eviction, a key of the MFU list that was read at least twice holds
\* the second value, beside an MRU key that was read and a key that was not.
C29_Witness ==
    \E k, j, i \in DOMAIN s.cacheMap :
        /\ s.cacheMap[k].state = 1 /\ NodeOf(s, k).Score >= 2 /\ NodeOf(s, k).v = 2
        /\ s.cacheMap[j].state = 0 /\ NodeOf(s, j).Score >= 1
        /\ NodeOf(s, i).Score = 0
        /\ s.counters.evictions >= 1

\* The cache was built with AutoEvict 0.
InlineMode == b.config.AutoEvict = 0

\* The step starts a promoteEvict on the shard, in the thread of the caller.
StartsPromoteEvict == \E p \in Procs : proc[p].pc = "idle" /\ proc'[p].pc = "overflow"

\* The keys whose expiry has passed.
Expired == TTLScan(s, now).expired

\* C30: in a cache built with AutoEvict 0 no step is a tick of the background
\* task or a step of a TTL sweep; a Set or SetTTL starts promoteEvict on the
\* shard when it succeeds and does not when it is rejected; a cached key
\* whose expiry has passed leaves the cache only by a Del, a flush or an
\* eviction of promoteEvict; and while it is cached Get returns the value of
\* its last set.
C30_InlineMode ==
    [][InlineMode =>
          /\ ~BgTick /\ ~TTLScanStep /\ ~TTLEvictStep /\ ~TTLCountStep
          /\ \A k \in Keys, v \in Vals :
                /\ Set(k, v) => (StartsPromoteEvict <=> SetLocked(s, k, v).ok)
                /\ \A t \in TTLs :
                      SetTTL(k, v, t) =>
                         (StartsPromoteEvict <=> SetTTLLocked(s, k, v, t, now).ok)
          /\ \A k \in Expired \cap DOMAIN s.cacheMap :
                /\ lastSet[k] # Nil /\ GetLocked(s, k).v = lastSet[k]
                /\ k \notin DOMAIN s'.cacheMap =>
                      \/ Del(k) \/ FlushMru \/ FlushMfu \/ FlushAll
                      \/ \E p \in Procs : PELruStep(p) \/ PEEvictStep(p)]_vars

\* In a cache built with AutoEvict 0 a key that was stored with SetTTL is
\* cached after its expiry has passed, and a Set has been rejected or a
\* promoteEvict has evicted a key.
C30_Witness ==
    /\ InlineMode
    /\ Expired \cap DOMAIN s.cacheMap # {}
    /\ s.counters.evictions >= 1 \/ s.counters.overflows >= 1

\* A step of promoteEvict that reads the shard's lists with no lock held: the
\* overflow (line 364), HighScores (line 381) and LowScores (line 465).
UnlockedRead(p) == PEOverflowStep(p) \/ PEScanStep(p) \/ PELowStep(p)

\* C31: while a thread is writing to the shard under its Lock, no step of
\* promoteEvict computes the overflow, scans the MRU list for its top scores
\* or the MFU list for its bottom scores, and no thread is in List's walk of
\* the map.
C31_LockDiscipline ==
    [][LockHeld =>
          /\ \A p \in Procs : ~UnlockedRead(p)
          /\ \A t \in Threads : calls'.th[t].pc # "walk"]_vars

\* C32: every key that the evict phase of a TTL sweep removes has, when it is
\* removed, an entry in the TTL map whose expiry has passed.
C32_SweepOnlyExpired ==
    [][TTLEvictStep =>
          \A k \in Gone(s, s') : k \in DOMAIN s.ttlMap /\ now > s.ttlMap[k]]_vars

\* C33: between the locked sections the shard's nearest expiry is at or
\* before the expiry of every key of its TTL map.
C33_NearestExpireLowerBound ==
    \A k \in DOMAIN s.ttlMap : s.nearestExpire <= s.ttlMap[k]

\* C34: the TTL counter is at least the number of entries of the TTL map.
C34_TTLCountCovers ==
    s.ttlCount >= Cardinality(DOMAIN s.ttlMap)

\* After an eviction the TTL map holds a key and the TTL counter is exactly
\* the number of its entries.
C34_Witness ==
    /\ s.counters.evictions >= 1
    /\ DOMAIN s.ttlMap # {}
    /\ s.ttlCount = Cardinality(DOMAIN s.ttlMap)

\* The nodes linked in a list of the shard.
Linked(S, which) == {ListOf(S, which).ring[i] : i \in 1..Len(ListOf(S, which).ring)}

\* C35: between the locked sections, the node of every map entry tagged MRU
\* (state 0) is linked in the MRU list and not in the MFU list, and the node of
\* every entry tagged MFU (state 1) is linked in the MFU list and not in the
\* MRU list.
C35_TierTags ==
    \A k \in DOMAIN s.cacheMap :
        LET e == s.cacheMap[k]
        IN  /\ e.state = 0 <=> e.node \in Linked(s, "mru")
            /\ e.state = 1 <=> e.node \in Linked(s, "mfu")

\* C36: every node linked in the MFU list has a score of 2 or more.
C36_MFUReadTwice ==
    \A n \in Linked(s, "mfu") : s.nodes[n].Score >= 2

\* The MFU list holds a node of score 3 beside an MRU list that holds a node
\* of score 2 and a node that was never read.
C36_Witness ==
    /\ \E n \in Linked(s, "mfu") : s.nodes[n].Score = 3
    /\ \E m \in Linked(s, "mru") : s.nodes[m].Score = 2
    /\ \E m \in Linked(s, "mru") : s.nodes[m].Score = 0

\* The positions of a promoteEvict that has gone past its overflow check.
PastOverflowCheck == {"lru", "scan", "free", "low", "score", "evict"}

\* C37: in a shard with NoOverflow the MRU list never holds more nodes than
\* its capacity, the MFU list is empty and every key is tagged MRU, no pass of
\* promoteEvict goes past its overflow check, and a key leaves the cache only
\* by a Del, a flush or the evict phase of a TTL sweep.
C37_NoOverflow ==
    /\ [](s.noOverflow =>
             /\ Len(s.mruCache.ring) <= s.mruCap
             /\ SllLen(s.mruCache) = Len(s.mruCache.ring)
             /\ s.mfuCache.ring = <<>>
             /\ \A k \in DOMAIN s.cacheMap : s.cacheMap[k].state = 0
             /\ \A p \in Procs : proc[p].pc \notin PastOverflowCheck)
    /\ [][s.noOverflow =>
             \A k \in Gone(s, s') :
                 Del(k) \/ FlushMru \/ FlushMfu \/ FlushAll \/ TTLEvictStep]_vars

\* In a shard with NoOverflow the MRU list is full, a set has been rejected
\* and a TTL sweep has evicted a key.
C37_Witness ==
    /\ s.noOverflow
    /\ Len(s.mruCache.ring) = s.mruCap
    /\ s.counters.overflows >= 1
    /\ s.counters.evictions >= 1

\* The steps of promoteEvict that call evictFromMRUTail.
TailEviction == \E p \in Procs : PELruStep(p) \/ PEEvictStep(p)

\* C38: a tail eviction of promoteEvict never pops from an empty MRU list, and
\* when it removes a key the MRU list is left with at least its capacity: each
\* key was removed while the list held more nodes than its capacity.
C38_EvictOnlyOverflow ==
    [][TailEviction =>
          /\ ~s'.panic
          /\ Gone(s, s') # {} => Len(s'.mruCache.ring) >= s.mruCap]_vars

\* C39: without a background task, once the passes of promoteEvict that the
\* threads' Sets ran have returned, each list's length counter is the number
\* of nodes linked in it and every key's node is linked in the list its tier
\* tag names and in no other (a node that two passes promote or evict is
\* taken off a list twice, and leaves a counter that differs from its list).
C39_InlinePasses ==
    ~b.autoEvict /\ AllIdle =>
        /\ SllLen(s.mruCache) = Len(s.mruCache.ring)
        /\ SllLen(s.mfuCache) = Len(s.mfuCache.ring)
        /\ \A k \in DOMAIN s.cacheMap :
              LET e == s.cacheMap[k]
              IN  /\ e.state = 0 <=> e.node \in Linked(s, "mru")
                  /\ e.state = 1 <=> e.node \in Linked(s, "mfu")

\* The nodes of list l from Tail() on by Next(), and from Head() on by Prev().
RECURSIVE FromTail(_, _, _)
FromTail(S, n, fuel) ==
    IF n = Nil \/ fuel = 0 THEN <<>> ELSE <<n>> \o FromTail(S, SllNext(S, n), fuel - 1)

RECURSIVE FromHead(_, _, _)
FromHead(S, n, fuel) ==
    IF n = Nil \/ fuel = 0 THEN <<>> ELSE <<n>> \o FromHead(S, SllPrev(S, n), fuel - 1)

TailToHead(S, l) ==
    IF S.heap[Root(l)].next = Root(l) THEN <<>>
    ELSE FromTail(S, S.heap[Root(l)].next, SllNodes + 1)

HeadToTail(S, l) ==
    IF S.heap[Root(l)].prev = Root(l) THEN <<>>
    ELSE FromHead(S, S.heap[Root(l)].prev, SllNodes + 1)

\* After the step list l holds the nodes of order, tail first, by its next
\* pointers and by its prev pointers, its length has grown by d, and the other
\* lists are as they were.
ListBecomes(l, order, d) ==
    /\ ~s'.panic
    /\ TailToHead(s', l) = order
    /\ HeadToTail(s', l) = Reverse(order)
    /\ s'.len[l] = s.len[l] + d
    /\ \A o \in 1..SllLists \ {l} :
          /\ TailToHead(s', o) = TailToHead(s, o)
          /\ HeadToTail(s', o) = HeadToTail(s, o)
          /\ s'.len[o] = s.len[o]

\* C40: MoveToHead / MoveToTail put the node at the head / tail, keep the
\* order of the other nodes and the length, and change nothing when the node
\* is already there; PushHeadNode / PushTailNode of a node that is in no list
\* put it at the head / tail, make the receiving list its list and raise the
\* length by one; Remove takes the node out and lowers the length by one.
C40_SllMoves ==
    [][\A l \in 1..SllLists, n \in 1..SllNodes :
          LET order == TailToHead(s, l)
          IN  /\ SllMoveToHead(l, n) =>
                    /\ ListBecomes(l, Without(order, n) \o <<n>>, 0)
                    /\ order[Len(order)] = n => s' = s
              /\ SllMoveToTail(l, n) =>
                    /\ ListBecomes(l, <<n>> \o Without(order, n), 0)
                    /\ order[1] = n => s' = s
              /\ SllPushHeadNode(l, n) =>
                    /\ ListBecomes(l, order \o <<n>>, 1)
                    /\ s'.heap[n].list = l
              /\ SllPushTailNode(l, n) =>
                    /\ ListBecomes(l, <<n>> \o order, 1)
                    /\ s'.heap[n].list = l
              /\ SllRemove(l, n) => ListBecomes(l, Without(order, n), -1)]_vars

\* MoveToTail has just moved a node to the tail of a list of three nodes, and
\* the node is neither the one pushed first nor the one pushed last.
C40_Witness ==
    /\ calls.th[1].call = <<"MoveToTail", 1, 2>>
    /\ TailToHead(s, 1) = <<2, 1, 3>>
    /\ s.len[1] = 3

====
